---- MODULE Spec2Model ----
(***************************************************************************)
(* A model of zmanim.hebrew_calendar.jewish_calendar.JewishCalendar: the   *)
(* significant-day classifier and the predicates derived from it, and of   *)
(* zmanim.zmanim_calendar.ZmanimCalendar: the zmanim derived from the      *)
(* sunrise and sunset of a day.                                            *)
(*                                                                         *)
(* The calendar object is the record cal: the Hebrew date fields that      *)
(* JewishDate supplies (jewish_month, jewish_day, day_of_week and the      *)
(* shape of the Hebrew year: leap, keviah) and the two flags of            *)
(* JewishCalendar (in_israel, use_modern_holidays).  Every method is an    *)
(* operator over such a record, and an action that calls it on cal and     *)
(* leaves what it returned in ret.  The zmanim calendar is the record zc   *)
(* (the answers of AstronomicalCalendar for its date and place, and the    *)
(* two fields use_elevation and candle_lighting_offset); args holds the    *)
(* arguments of the call, and molad the molad JewishDate computes for the  *)
(* month.                                                                  *)
(***************************************************************************)
EXTENDS Integers, Sequences, FiniteSets

VARIABLES cal, zc, molad, op, args, ret

vars == <<cal, zc, molad, op, args, ret>>

\* What a call without arguments passes.
NoArgs == << >>

\* A JewishCalendar alone: no ZmanimCalendar and no molad is at hand.
NoObject == [none |-> TRUE]

\* Python's None, returned by a method that falls off its end.
None == "None"

\* What None() raises when significant_day() finds no handler.
TypeError == "TypeError"

\* Optional[int]: None is the empty set, n is {n}.
NoneInt == {}

SomeInt(n) == {n}

(***************************************************************************)
(* constants.py                                                            *)
(***************************************************************************)
JEWISH_MONTHS ==
    << "nissan", "iyar", "sivan", "tammuz", "av", "elul", "tishrei",
       "cheshvan", "kislev", "teves", "shevat", "adar", "adar_ii" >>

SIGNIFICANT_DAYS ==
    { "erev_rosh_hashana", "rosh_hashana", "tzom_gedalyah", "erev_yom_kippur",
      "yom_kippur", "erev_succos", "succos", "chol_hamoed_succos",
      "hoshana_rabbah", "shemini_atzeres", "simchas_torah", "chanukah",
      "tenth_of_teves", "tu_beshvat", "taanis_esther", "purim",
      "shushan_purim", "purim_katan", "shushan_purim_katan", "erev_pesach",
      "pesach", "chol_hamoed_pesach", "pesach_sheni", "lag_baomer",
      "erev_shavuos", "shavuos", "seventeen_of_tammuz", "tisha_beav",
      "tu_beav", "yom_hashoah", "yom_hazikaron", "yom_haatzmaut",
      "yom_yerushalayim" }

CHESHVAN_KISLEV_KEVIAH == { "chaseirim", "kesidran", "shelaimim" }

\* sd.startswith('erev_')
ErevTags ==
    { "erev_rosh_hashana", "erev_yom_kippur", "erev_succos", "erev_pesach",
      "erev_shavuos" }

startswith_erev(sd) == sd \in ErevTags

(***************************************************************************)
(* JewishDate, the Hebrew-date arithmetic the calendar is built on.        *)
(***************************************************************************)
is_jewish_leap_year(self) == self.leap

months_in_jewish_year(self) == IF is_jewish_leap_year(self) THEN 13 ELSE 12

is_kislev_short(self) == self.keviah = "chaseirim"

is_cheshvan_long(self) == self.keviah = "shelaimim"

jewish_month_name(self) == JEWISH_MONTHS[self.jewish_month]

days_in_jewish_month(self) ==
    IF \/ self.jewish_month \in {2, 4, 6, 10, 13}
       \/ (self.jewish_month = 8 /\ ~is_cheshvan_long(self))
       \/ (self.jewish_month = 9 /\ is_kislev_short(self))
       \/ (self.jewish_month = 12 /\ ~is_jewish_leap_year(self))
    THEN 29
    ELSE 30

\* The dates a JewishDate can hold.
ValidDate(self) ==
    /\ self.jewish_month \in 1..months_in_jewish_year(self)
    /\ self.jewish_day \in 1..days_in_jewish_month(self)
    /\ self.day_of_week \in 1..7

\* The calendar objects: a valid date and the two flags.
Calendars ==
    { c \in [ jewish_month : 1..13, jewish_day : 1..30, day_of_week : 1..7,
              leap : BOOLEAN, keviah : CHESHVAN_KISLEV_KEVIAH,
              in_israel : BOOLEAN, use_modern_holidays : BOOLEAN ] :
        ValidDate(c) }

\* The day after self, in the same Hebrew year (Tishrei follows Elul, and
\* there the next year begins: forward picks that year's shape).
next_month(self) ==
    IF self.jewish_month = months_in_jewish_year(self)
    THEN 1
    ELSE self.jewish_month + 1

tomorrow(self) ==
    IF self.jewish_day < days_in_jewish_month(self)
    THEN [self EXCEPT !.jewish_day = @ + 1,
                      !.day_of_week = (@ % 7) + 1]
    ELSE [self EXCEPT !.jewish_day = 1,
                      !.jewish_month = next_month(self),
                      !.day_of_week = (@ % 7) + 1]

(***************************************************************************)
(* The month handlers.  A handler is its if/elif chain: the rules in the   *)
(* order the code tests them, each a condition c and the tag t it returns. *)
(***************************************************************************)
Rule(cond, tag) == [c |-> cond, t |-> tag]

_nissan_rules(self) ==
    LET pesach == IF ~self.in_israel THEN {15, 21, 16, 22} ELSE {15, 21}
    IN  << Rule(self.jewish_day = 14, "erev_pesach"),
           Rule(self.jewish_day \in pesach, "pesach"),
           Rule(self.jewish_day \in 16..20, "chol_hamoed_pesach"),
           Rule(/\ self.use_modern_holidays
                /\ \/ (self.jewish_day = 26 /\ self.day_of_week = 5)
                   \/ (self.jewish_day = 27 /\ self.day_of_week \notin {1, 6})
                   \/ (self.jewish_day = 28 /\ self.day_of_week = 2),
                "yom_hashoah") >>

\* _iyar_rules with the day-28 branch one level out: an elif of the outer
\* chain, reached when use_modern_holidays is false.
_iyar_rules_outer_elif(self) ==
    << Rule(self.jewish_day = 14, "pesach_sheni"),
       Rule(self.jewish_day = 18, "lag_baomer"),
       Rule(/\ self.use_modern_holidays
            /\ \/ (self.jewish_day \in {2, 3} /\ self.day_of_week = 4)
               \/ (self.jewish_day = 4 /\ self.day_of_week = 3)
               \/ (self.jewish_day = 5 /\ self.day_of_week = 2),
            "yom_hazikaron"),
       Rule(/\ self.use_modern_holidays
            /\ \/ (self.jewish_day \in {3, 4} /\ self.day_of_week = 5)
               \/ (self.jewish_day = 5 /\ self.day_of_week = 4)
               \/ (self.jewish_day = 6 /\ self.day_of_week = 3),
            "yom_haatzmaut"),
       Rule(~self.use_modern_holidays /\ self.jewish_day = 28,
            "yom_yerushalayim") >>

_iyar_rules(self) ==
    << Rule(self.jewish_day = 14, "pesach_sheni"),
       Rule(self.jewish_day = 18, "lag_baomer"),
       Rule(/\ self.use_modern_holidays
            /\ \/ (self.jewish_day \in {2, 3} /\ self.day_of_week = 4)
               \/ (self.jewish_day = 4 /\ self.day_of_week = 3)
               \/ (self.jewish_day = 5 /\ self.day_of_week = 2),
            "yom_hazikaron"),
       Rule(/\ self.use_modern_holidays
            /\ \/ (self.jewish_day \in {3, 4} /\ self.day_of_week = 5)
               \/ (self.jewish_day = 5 /\ self.day_of_week = 4)
               \/ (self.jewish_day = 6 /\ self.day_of_week = 3),
            "yom_haatzmaut"),
       Rule(self.use_modern_holidays /\ self.jewish_day = 28,
            "yom_yerushalayim") >>

\* _sivan_rules with the second day of Shavuos in Israel too.
_sivan_rules_no_locale(self) ==
    LET shavuos == {6, 7}
    IN  << Rule(self.jewish_day = 5, "erev_shavuos"),
           Rule(self.jewish_day \in shavuos, "shavuos") >>

_sivan_rules(self) ==
    LET shavuos == IF ~self.in_israel THEN {6, 7} ELSE {6}
    IN  << Rule(self.jewish_day = 5, "erev_shavuos"),
           Rule(self.jewish_day \in shavuos, "shavuos") >>

\* _tammuz_rules without the test that skips a Saturday.
_tammuz_rules_no_skip(self) ==
    << Rule(\/ self.jewish_day = 17
            \/ (self.jewish_day = 18 /\ self.day_of_week = 1),
            "seventeen_of_tammuz") >>

_tammuz_rules(self) ==
    << Rule(\/ (self.jewish_day = 17 /\ self.day_of_week # 7)
            \/ (self.jewish_day = 18 /\ self.day_of_week = 1),
            "seventeen_of_tammuz") >>

_av_rules(self) ==
    << Rule(\/ (self.jewish_day = 9 /\ self.day_of_week # 7)
            \/ (self.jewish_day = 10 /\ self.day_of_week = 1),
            "tisha_beav"),
       Rule(self.jewish_day = 15, "tu_beav") >>

_elul_rules(self) ==
    << Rule(self.jewish_day = 29, "erev_rosh_hashana") >>

_tishrei_rules(self) ==
    LET succos == IF ~self.in_israel THEN {15, 16} ELSE {15}
    IN  << Rule(self.jewish_day \in {1, 2}, "rosh_hashana"),
           Rule(\/ (self.jewish_day = 3 /\ self.day_of_week # 7)
                \/ (self.jewish_day = 4 /\ self.day_of_week = 1),
                "tzom_gedalyah"),
           Rule(self.jewish_day = 9, "erev_yom_kippur"),
           Rule(self.jewish_day = 10, "yom_kippur"),
           Rule(self.jewish_day = 14, "erev_succos"),
           Rule(self.jewish_day \in succos, "succos"),
           Rule(self.jewish_day \in 16..20, "chol_hamoed_succos"),
           Rule(self.jewish_day = 21, "hoshana_rabbah"),
           Rule(self.jewish_day = 22, "shemini_atzeres"),
           Rule(self.jewish_day = 23 /\ ~self.in_israel, "simchas_torah") >>

_cheshvan_rules(self) == << >>

_kislev_rules(self) ==
    << Rule(self.jewish_day >= 25, "chanukah") >>

\* _teves_rules with the Tenth of Teves moved off a Saturday, as the other
\* fasts are.
_teves_rules_deferred(self) ==
    LET chanukah == IF is_kislev_short(self) THEN {1, 2, 3} ELSE {1, 2}
    IN  << Rule(self.jewish_day \in chanukah, "chanukah"),
           Rule(\/ (self.jewish_day = 10 /\ self.day_of_week # 7)
                \/ (self.jewish_day = 11 /\ self.day_of_week = 1),
                "tenth_of_teves") >>

_teves_rules(self) ==
    LET chanukah == IF is_kislev_short(self) THEN {1, 2, 3} ELSE {1, 2}
    IN  << Rule(self.jewish_day \in chanukah, "chanukah"),
           Rule(self.jewish_day = 10, "tenth_of_teves") >>

_shevat_rules(self) ==
    << Rule(self.jewish_day = 15, "tu_beshvat") >>

_purim_rules(self) ==
    << Rule(\/ (self.jewish_day = 13 /\ self.day_of_week # 7)
            \/ (self.jewish_day = 11 /\ self.day_of_week = 5),
            "taanis_esther"),
       Rule(self.jewish_day = 14, "purim"),
       Rule(self.jewish_day = 15, "shushan_purim") >>

\* _adar_rules with the leap-year test inverted.
_adar_rules_inverted(self) ==
    IF ~is_jewish_leap_year(self)
    THEN << Rule(self.jewish_day = 14, "purim_katan"),
            Rule(self.jewish_day = 15, "shushan_purim_katan") >>
    ELSE _purim_rules(self)

_adar_rules(self) ==
    IF is_jewish_leap_year(self)
    THEN << Rule(self.jewish_day = 14, "purim_katan"),
            Rule(self.jewish_day = 15, "shushan_purim_katan") >>
    ELSE _purim_rules(self)

_adar_ii_rules(self) == _purim_rules(self)

\* The handlers JewishCalendar defines, by the month name getattr looks up.
Handlers ==
    { "nissan", "iyar", "sivan", "tammuz", "av", "elul", "tishrei",
      "cheshvan", "kislev", "teves", "shevat", "adar", "adar_ii" }

month_rules(self) ==
    LET name == jewish_month_name(self)
    IN  CASE name = "nissan" -> _nissan_rules(self)
          [] name = "iyar" -> _iyar_rules(self)
          [] name = "sivan" -> _sivan_rules(self)
          [] name = "tammuz" -> _tammuz_rules(self)
          [] name = "av" -> _av_rules(self)
          [] name = "elul" -> _elul_rules(self)
          [] name = "tishrei" -> _tishrei_rules(self)
          [] name = "cheshvan" -> _cheshvan_rules(self)
          [] name = "kislev" -> _kislev_rules(self)
          [] name = "teves" -> _teves_rules(self)
          [] name = "shevat" -> _shevat_rules(self)
          [] name = "adar" -> _adar_rules(self)
          [] name = "adar_ii" -> _adar_ii_rules(self)

\* A chain in which the last rule whose condition holds decides.
last_match(rules, i) ==
    LET held == { j \in i..Len(rules) : rules[j].c }
    IN  IF held = {}
        THEN None
        ELSE rules[CHOOSE j \in held : \A k \in held : k <= j].t

\* An if/elif chain returns the tag of the first rule whose condition
\* holds, and None when it falls off the end.
RECURSIVE first_match(_, _)
first_match(rules, i) ==
    IF i > Len(rules)
    THEN None
    ELSE IF rules[i].c THEN rules[i].t ELSE first_match(rules, i + 1)

significant_day(self) ==
    IF jewish_month_name(self) \in Handlers
    THEN first_match(month_rules(self), 1)
    ELSE TypeError

(***************************************************************************)
(* The predicates derived from significant_day().                          *)
(***************************************************************************)
is_yom_tov_assur_bemelacha(self) ==
    significant_day(self) \in
        { "pesach", "shavuos", "rosh_hashana", "yom_kippur", "succos",
          "shemini_atzeres", "simchas_torah" }

is_taanis(self) ==
    significant_day(self) \in
        { "seventeen_of_tammuz", "tisha_beav", "tzom_gedalyah", "yom_kippur",
          "tenth_of_teves", "taanis_esther" }

\* is_yom_tov without the exception for Yom Kippur.
is_yom_tov_no_fast(self) ==
    LET sd == significant_day(self)
    IN  /\ sd # None
        /\ ~startswith_erev(sd)
        /\ ~is_taanis(self)

is_yom_tov(self) ==
    LET sd == significant_day(self)
    IN  /\ sd # None
        /\ ~startswith_erev(sd)
        /\ (~is_taanis(self) \/ sd = "yom_kippur")

\* is_erev_yom_tov without the seventh-day-of-Pesach clause.
is_erev_yom_tov_no_day_20(self) ==
    LET sd == significant_day(self)
    IN  /\ sd # None
        /\ \/ startswith_erev(sd)
           \/ sd = "hoshana_rabbah"

is_erev_yom_tov(self) ==
    LET sd == significant_day(self)
    IN  /\ sd # None
        /\ \/ startswith_erev(sd)
           \/ sd = "hoshana_rabbah"
           \/ (sd = "chol_hamoed_pesach" /\ self.jewish_day = 20)

\* is_yom_tov_sheni with the second day of Rosh Hashana a Diaspora day too.
is_yom_tov_sheni_diaspora_only(self) ==
    /\ ~self.in_israel
    /\ \/ (self.jewish_month = 7 /\ self.jewish_day \in {2, 16, 23})
       \/ (self.jewish_month = 1 /\ self.jewish_day \in {16, 22})
       \/ (self.jewish_month = 3 /\ self.jewish_day = 7)

is_yom_tov_sheni(self) ==
    \/ (self.jewish_month = 7 /\ self.jewish_day = 2)
    \/ /\ ~self.in_israel
       /\ \/ (self.jewish_month = 7 /\ self.jewish_day \in {16, 23})
          \/ (self.jewish_month = 1 /\ self.jewish_day \in {16, 22})
          \/ (self.jewish_month = 3 /\ self.jewish_day = 7)

is_erev_yom_tov_sheni(self) ==
    \/ (self.jewish_month = 7 /\ self.jewish_day = 1)
    \/ /\ ~self.in_israel
       /\ \/ (self.jewish_month = 7 /\ self.jewish_day \in {15, 22})
          \/ (self.jewish_month = 1 /\ self.jewish_day \in {15, 21})
          \/ (self.jewish_month = 3 /\ self.jewish_day = 6)

is_assur_bemelacha(self) ==
    self.day_of_week = 7 \/ is_yom_tov_assur_bemelacha(self)

is_tomorrow_assur_bemelacha(self) ==
    \/ self.day_of_week = 6
    \/ is_erev_yom_tov(self)
    \/ is_erev_yom_tov_sheni(self)

has_candle_lighting(self) == is_tomorrow_assur_bemelacha(self)

\* has_delayed_candle_lighting without the test for Friday.
has_delayed_candle_lighting_any_day(self) ==
    /\ has_candle_lighting(self)
    /\ is_assur_bemelacha(self)

has_delayed_candle_lighting(self) ==
    /\ self.day_of_week # 6
    /\ has_candle_lighting(self)
    /\ is_assur_bemelacha(self)

is_chanukah(self) == significant_day(self) = "chanukah"

\* day_of_chanukah that takes every Kislev to have 30 days.
day_of_chanukah_long_kislev(self) ==
    IF ~is_chanukah(self)
    THEN NoneInt
    ELSE IF jewish_month_name(self) = "kislev"
         THEN SomeInt(self.jewish_day - 24)
         ELSE SomeInt(self.jewish_day + 6)

day_of_chanukah(self) ==
    IF ~is_chanukah(self)
    THEN NoneInt
    ELSE IF jewish_month_name(self) = "kislev"
         THEN SomeInt(self.jewish_day - 24)
         ELSE SomeInt(self.jewish_day
                        + (IF is_kislev_short(self) THEN 5 ELSE 6))

(***************************************************************************)
(* significant_shabbos()                                                   *)
(***************************************************************************)
\* significant_shabbos with Parshas Shekalim looked for in Shevat, the
\* month before the last of a year of 12 months.
significant_shabbos_shevat(self) ==
    IF self.day_of_week # 7
    THEN None
    ELSE IF self.jewish_month = 1
    THEN (IF self.jewish_day = 1
          THEN "parshas_hachodesh"
          ELSE IF self.jewish_day \in 8..14
          THEN "shabbos_hagadol"
          ELSE None)
    ELSE IF self.jewish_month = 7 /\ self.jewish_day \in 3..9
    THEN "shabbos_shuva"
    ELSE IF self.jewish_month = 11 /\ self.jewish_day \in 25..30
    THEN "parshas_shekalim"
    ELSE IF self.jewish_month = months_in_jewish_year(self)
    THEN (IF self.jewish_day = 1
          THEN "parshas_shekalim"
          ELSE IF self.jewish_day \in 7..13
          THEN "parshas_zachor"
          ELSE IF self.jewish_day \in 17..23
          THEN "parshas_parah"
          ELSE IF self.jewish_day \in 24..29
          THEN "parshas_hachodesh"
          ELSE None)
    ELSE None

significant_shabbos(self) ==
    IF self.day_of_week # 7
    THEN None
    ELSE IF self.jewish_month = 1
    THEN (IF self.jewish_day = 1
          THEN "parshas_hachodesh"
          ELSE IF self.jewish_day \in 8..14
          THEN "shabbos_hagadol"
          ELSE None)
    ELSE IF self.jewish_month = 7 /\ self.jewish_day \in 3..9
    THEN "shabbos_shuva"
    ELSE IF /\ self.jewish_month = months_in_jewish_year(self) - 1
            /\ self.jewish_day \in 25..30
    THEN "parshas_shekalim"
    ELSE IF self.jewish_month = months_in_jewish_year(self)
    THEN (IF self.jewish_day = 1
          THEN "parshas_shekalim"
          ELSE IF self.jewish_day \in 7..13
          THEN "parshas_zachor"
          ELSE IF self.jewish_day \in 17..23
          THEN "parshas_parah"
          ELSE IF self.jewish_day \in 24..29
          THEN "parshas_hachodesh"
          ELSE None)
    ELSE None

(***************************************************************************)
(* The state machine: construction, the assignments to the flags, a step   *)
(* to the next day, and the calls of the methods.                          *)
(***************************************************************************)
\* JewishCalendar.__init__: any valid date, in_israel as given (False when
\* it is not), use_modern_holidays False.
Init ==
    /\ cal \in Calendars
    /\ cal.use_modern_holidays = FALSE
    /\ zc = NoObject
    /\ molad = NoObject
    /\ op = "__init__"
    /\ args = NoArgs
    /\ ret = None

\* cal.in_israel = b
SetInIsrael ==
    \E b \in BOOLEAN :
        /\ cal' = [cal EXCEPT !.in_israel = b]
        /\ op' = "in_israel"
        /\ args' = <<b>>
        /\ ret' = None
        /\ UNCHANGED <<zc, molad>>

\* cal.use_modern_holidays = b
SetUseModernHolidays ==
    \E b \in BOOLEAN :
        /\ cal' = [cal EXCEPT !.use_modern_holidays = b]
        /\ op' = "use_modern_holidays"
        /\ args' = <<b>>
        /\ ret' = None
        /\ UNCHANGED <<zc, molad>>

\* cal.forward(): the next day.  On Elul's last day the next day is Tishrei 1
\* of the next year, whose shape (leap, keviah) is that year's own.
Forward ==
    /\ IF cal.jewish_month = 6 /\ cal.jewish_day = days_in_jewish_month(cal)
       THEN \E l \in BOOLEAN, k \in CHESHVAN_KISLEV_KEVIAH :
                cal' = [tomorrow(cal) EXCEPT !.leap = l, !.keviah = k]
       ELSE cal' = tomorrow(cal)
    /\ op' = "forward"
    /\ args' = NoArgs
    /\ ret' = None
    /\ UNCHANGED <<zc, molad>>

Call(name, value) ==
    /\ op' = name
    /\ args' = NoArgs
    /\ ret' = value
    /\ UNCHANGED <<cal, zc, molad>>

Call_significant_day == Call("significant_day", significant_day(cal))

Call_is_yom_tov == Call("is_yom_tov", is_yom_tov(cal))

Call_is_yom_tov_assur_bemelacha ==
    Call("is_yom_tov_assur_bemelacha", is_yom_tov_assur_bemelacha(cal))

Call_is_taanis == Call("is_taanis", is_taanis(cal))

Call_is_erev_yom_tov == Call("is_erev_yom_tov", is_erev_yom_tov(cal))

Call_is_yom_tov_sheni == Call("is_yom_tov_sheni", is_yom_tov_sheni(cal))

Call_is_erev_yom_tov_sheni ==
    Call("is_erev_yom_tov_sheni", is_erev_yom_tov_sheni(cal))

Call_is_assur_bemelacha == Call("is_assur_bemelacha", is_assur_bemelacha(cal))

Call_is_tomorrow_assur_bemelacha ==
    Call("is_tomorrow_assur_bemelacha", is_tomorrow_assur_bemelacha(cal))

Call_has_candle_lighting ==
    Call("has_candle_lighting", has_candle_lighting(cal))

Call_has_delayed_candle_lighting ==
    Call("has_delayed_candle_lighting", has_delayed_candle_lighting(cal))

Call_is_chanukah == Call("is_chanukah", is_chanukah(cal))

Call_day_of_chanukah == Call("day_of_chanukah", day_of_chanukah(cal))

Call_significant_shabbos ==
    Call("significant_shabbos", significant_shabbos(cal))

Next ==
    \/ SetInIsrael
    \/ SetUseModernHolidays
    \/ Forward
    \/ Call_significant_day
    \/ Call_is_yom_tov
    \/ Call_is_yom_tov_assur_bemelacha
    \/ Call_is_taanis
    \/ Call_is_erev_yom_tov
    \/ Call_is_yom_tov_sheni
    \/ Call_is_erev_yom_tov_sheni
    \/ Call_is_assur_bemelacha
    \/ Call_is_tomorrow_assur_bemelacha
    \/ Call_has_candle_lighting
    \/ Call_has_delayed_candle_lighting
    \/ Call_is_chanukah
    \/ Call_day_of_chanukah
    \/ Call_significant_shabbos

Spec == Init /\ [][Next]_vars

TypeOK == cal \in Calendars

(***************************************************************************)
(* ZmanimCalendar.  An instant is a whole number of milliseconds on the    *)
(* time line, and a span of time is a whole number of milliseconds; an     *)
(* Optional value is NoneInt or SomeInt of the value.  Floats are taken as *)
(* exact, so a float number of minutes is carried as the milliseconds it   *)
(* amounts to; the sample instants are chosen so that every quotient the   *)
(* code forms is a whole number of milliseconds.  Degrees are carried in   *)
(* tenths (8.5 is 85, 16.1 is 161).                                        *)
(***************************************************************************)

Value(optional) == CHOOSE x \in optional : TRUE

\* AstronomicalCalendar.MINUTE_MILLIS, HOUR_MILLIS and GEOMETRIC_ZENITH.
MINUTE_MILLIS == 60 * 1000

HOUR_MILLIS == 60 * MINUTE_MILLIS

GEOMETRIC_ZENITH == 90 * 10

\* timedelta(minutes=n) for a whole number n.
Minutes(n) == n * MINUTE_MILLIS

\* The instant h:m on the calendar's date.
Clock(h, m) == Minutes(h * 60 + m)

\* The answers of AstronomicalCalendar, which self.sun holds.
sunrise(self) == self.sun.sunrise

sea_level_sunrise(self) == self.sun.sea_level_sunrise

sunset(self) == self.sun.sunset

sea_level_sunset(self) == self.sun.sea_level_sunset

sun_transit(self) == self.sun.sun_transit

sunrise_offset_by_degrees(self, zenith) == self.sun.sunrise_offset_by_degrees[zenith]

sunset_offset_by_degrees(self, zenith) == self.sun.sunset_offset_by_degrees[zenith]

\* AstronomicalCalendar.temporal_hour: a twelfth of the day, None when a
\* boundary is None.
temporal_hour(day_start, day_end) ==
    IF day_start = NoneInt \/ day_end = NoneInt
    THEN NoneInt
    ELSE SomeInt((Value(day_end) - Value(day_start)) \div 12)

elevation_adjusted_sunrise(self) ==
    IF self.use_elevation THEN sunrise(self) ELSE sea_level_sunrise(self)

hanetz(self) == elevation_adjusted_sunrise(self)

\* elevation_adjusted_sunset that does not look at use_elevation.
elevation_adjusted_sunset_sea_level(self) == sea_level_sunset(self)

elevation_adjusted_sunset(self) ==
    IF self.use_elevation THEN sunset(self) ELSE sea_level_sunset(self)

shkia(self) == elevation_adjusted_sunset(self)

shaah_zmanis(self, day_start, day_end) == temporal_hour(day_start, day_end)

shaah_zmanis_gra(self) ==
    shaah_zmanis(self, elevation_adjusted_sunrise(self), elevation_adjusted_sunset(self))

\* _extract_degrees_offset with the degrees of tzais() for a dict that
\* does not hold "degrees".
_extract_degrees_offset_8_5(opts) ==
    [degrees       |-> IF "degrees" \in DOMAIN opts THEN opts["degrees"] ELSE 85,
     offset        |-> IF "offset" \in DOMAIN opts THEN opts["offset"] ELSE 0,
     zmanis_offset |-> IF "zmanis_offset" \in DOMAIN opts THEN opts["zmanis_offset"] ELSE 0]

\* opts is a dict: a function from the keys it holds.
_extract_degrees_offset(opts) ==
    [degrees       |-> IF "degrees" \in DOMAIN opts THEN opts["degrees"] ELSE 0,
     offset        |-> IF "offset" \in DOMAIN opts THEN opts["offset"] ELSE 0,
     zmanis_offset |-> IF "zmanis_offset" \in DOMAIN opts THEN opts["zmanis_offset"] ELSE 0]

\* minutes is the span in milliseconds that timedelta(minutes=minutes) is.
_offset_by_minutes(time, minutes) ==
    IF time = NoneInt THEN NoneInt ELSE SomeInt(Value(time) + minutes)

\* shaah_zmanis_skew is shaah_zmanis_gra / HOUR_MILLIS, so the span
\* timedelta(minutes=minutes * shaah_zmanis_skew) is, in milliseconds,
\* minutes * shaah_zmanis_gra * MINUTE_MILLIS / HOUR_MILLIS.
_offset_by_minutes_zmanis(self, time, minutes) ==
    IF time = NoneInt
    THEN NoneInt
    ELSE IF shaah_zmanis_gra(self) = NoneInt
         THEN NoneInt
         ELSE SomeInt(Value(time)
                      + (minutes * Value(shaah_zmanis_gra(self)))
                          \div (HOUR_MILLIS \div MINUTE_MILLIS))

\* The default arguments of tzais and alos.
TZAIS_DEFAULT_OPTS == [degrees |-> 85]

ALOS_DEFAULT_OPTS == [degrees |-> 161]

\* tzais applying the offset and the zmanis_offset together.
tzais_both_offsets(self, opts) ==
    LET extracted == _extract_degrees_offset(opts)
        sunset_for_degrees ==
            IF extracted.degrees = 0
            THEN elevation_adjusted_sunset(self)
            ELSE sunset_offset_by_degrees(self, GEOMETRIC_ZENITH + extracted.degrees)
    IN  _offset_by_minutes(
            _offset_by_minutes_zmanis(self, sunset_for_degrees, extracted.zmanis_offset),
            Minutes(extracted.offset))

tzais(self, opts) ==
    LET extracted == _extract_degrees_offset(opts)
        degrees == extracted.degrees
        offset == extracted.offset
        zmanis_offset == extracted.zmanis_offset
        sunset_for_degrees ==
            IF degrees = 0
            THEN elevation_adjusted_sunset(self)
            ELSE sunset_offset_by_degrees(self, GEOMETRIC_ZENITH + degrees)
    IN  IF zmanis_offset # 0
        THEN _offset_by_minutes_zmanis(self, sunset_for_degrees, zmanis_offset)
        ELSE _offset_by_minutes(sunset_for_degrees, Minutes(offset))

\* tzais_72 with the 8.5 degrees of tzais() under its 72 minutes.
tzais_72_by_degrees(self) == tzais(self, [degrees |-> 85, offset |-> 72])

tzais_72(self) == tzais(self, [offset |-> 72])

alos(self, opts) ==
    LET extracted == _extract_degrees_offset(opts)
        degrees == extracted.degrees
        offset == extracted.offset
        zmanis_offset == extracted.zmanis_offset
        sunrise_for_degrees ==
            IF degrees = 0
            THEN elevation_adjusted_sunrise(self)
            ELSE sunrise_offset_by_degrees(self, GEOMETRIC_ZENITH + degrees)
    IN  IF zmanis_offset # 0
        THEN _offset_by_minutes_zmanis(self, sunrise_for_degrees, -zmanis_offset)
        ELSE _offset_by_minutes(sunrise_for_degrees, Minutes(-offset))

alos_72(self) == alos(self, [offset |-> 72])

chatzos(self) == sun_transit(self)

\* candle_lighting with the offset the constructor has by default, not
\* the one the field holds.
candle_lighting_default_offset(self) ==
    _offset_by_minutes(sea_level_sunset(self), Minutes(-18))

candle_lighting(self) ==
    _offset_by_minutes(sea_level_sunset(self), Minutes(-self.candle_lighting_offset))

\* _shaos_into_day counting hours of the clock: shaos hours of 60
\* minutes after day_start.
_shaos_into_day_clock_hours(self, day_start, day_end, shaos) ==
    IF temporal_hour(day_start, day_end) = NoneInt
    THEN NoneInt
    ELSE _offset_by_minutes(day_start, (HOUR_MILLIS * shaos[1]) \div shaos[2])

\* shaos is a pair <<n, d>>: the number n / d of temporal hours.  The
\* minutes (shaah_zmanis / MINUTE_MILLIS) * shaos are, in milliseconds,
\* shaah_zmanis * n / d.
_shaos_into_day(self, day_start, day_end, shaos) ==
    LET shaah == temporal_hour(day_start, day_end)
    IN  IF shaah = NoneInt
        THEN NoneInt
        ELSE _offset_by_minutes(day_start, (Value(shaah) * shaos[1]) \div shaos[2])

sof_zman_shma(self, day_start, day_end) ==
    _shaos_into_day(self, day_start, day_end, <<3, 1>>)

sof_zman_shma_gra(self) ==
    IF elevation_adjusted_sunrise(self) = NoneInt \/ elevation_adjusted_sunset(self) = NoneInt
    THEN NoneInt
    ELSE sof_zman_shma(self, elevation_adjusted_sunrise(self), elevation_adjusted_sunset(self))

sof_zman_shma_mga(self) ==
    IF alos_72(self) = NoneInt \/ tzais_72(self) = NoneInt
    THEN NoneInt
    ELSE sof_zman_shma(self, alos_72(self), tzais_72(self))

sof_zman_tfila(self, day_start, day_end) ==
    _shaos_into_day(self, day_start, day_end, <<4, 1>>)

sof_zman_tfila_gra(self) ==
    sof_zman_tfila(self, elevation_adjusted_sunrise(self), elevation_adjusted_sunset(self))

sof_zman_tfila_mga(self) == sof_zman_tfila(self, alos_72(self), tzais_72(self))

\* What a day-fraction zman takes for a boundary that was not supplied.
default_day_start(self, day_start) ==
    IF day_start = NoneInt THEN elevation_adjusted_sunrise(self) ELSE day_start

default_day_end(self, day_end) ==
    IF day_end = NoneInt THEN elevation_adjusted_sunset(self) ELSE day_end

mincha_gedola(self, day_start, day_end) ==
    _shaos_into_day(self, default_day_start(self, day_start),
                    default_day_end(self, day_end), <<13, 2>>)

mincha_ketana(self, day_start, day_end) ==
    _shaos_into_day(self, default_day_start(self, day_start),
                    default_day_end(self, day_end), <<19, 2>>)

plag_hamincha(self, day_start, day_end) ==
    _shaos_into_day(self, default_day_start(self, day_start),
                    default_day_end(self, day_end), <<43, 4>>)

shaah_zmanis_mga(self) == shaah_zmanis(self, alos_72(self), tzais_72(self))

\* tzais is [kind |-> "None"], [kind |-> "dict", opts |-> a dict] or
\* [kind |-> "datetime", time |-> an instant]; current_time carries the
\* JewishCalendar that JewishCalendar(current_time.date()) constructs.
tzais_time_of(self, tzais_arg) ==
    IF tzais_arg.kind = "None"
    THEN tzais(self, TZAIS_DEFAULT_OPTS)
    ELSE IF tzais_arg.kind = "dict"
         THEN tzais(self, tzais_arg.opts)
         ELSE SomeInt(tzais_arg.time)

\* is_assur_bemelacha that leaves the calendar it constructs in the
\* Diaspora.
ZmanimCalendar_is_assur_bemelacha_diaspora(self, current_time, tzais_arg, in_israel) ==
    LET tzais_time == tzais_time_of(self, tzais_arg)
    IN  IF tzais_time = NoneInt \/ elevation_adjusted_sunset(self) = NoneInt
        THEN {}
        ELSE {(/\ current_time.time <= Value(tzais_time)
                /\ is_assur_bemelacha(current_time.date))
              \/ (/\ current_time.time >= Value(elevation_adjusted_sunset(self))
                  /\ is_tomorrow_assur_bemelacha(current_time.date))}

ZmanimCalendar_is_assur_bemelacha(self, current_time, tzais_arg, in_israel) ==
    LET tzais_time == tzais_time_of(self, tzais_arg)
        jewish_calendar == [current_time.date EXCEPT !.in_israel = in_israel]
    IN  IF tzais_time = NoneInt
        THEN {}
        ELSE IF elevation_adjusted_sunset(self) = NoneInt
             THEN {}
             ELSE {(/\ current_time.time <= Value(tzais_time)
                     /\ is_assur_bemelacha(jewish_calendar))
                   \/ (/\ current_time.time >= Value(elevation_adjusted_sunset(self))
                       /\ is_tomorrow_assur_bemelacha(jewish_calendar))}

(***************************************************************************)
(* The zmanim calendars the model constructs and the arguments it passes.  *)
(***************************************************************************)

Degrees == {85, 161}

Zeniths == {GEOMETRIC_ZENITH + d : d \in Degrees}

\* How far below the horizon the sun gets that night, in tenths of a
\* degree: the degree-offset sunrise and sunset are None for a zenith it
\* never reaches.
Depressions == {0, 100, 180}

DEGREE_MILLIS == 4 * MINUTE_MILLIS

DawnAt(zenith) == Clock(6, 0) - ((zenith - GEOMETRIC_ZENITH) * DEGREE_MILLIS) \div 10

DuskAt(zenith) == Clock(18, 0) + ((zenith - GEOMETRIC_ZENITH) * DEGREE_MILLIS) \div 10

Suns ==
    { [sunrise |-> sr, sea_level_sunrise |-> slsr, sunset |-> ss,
       sea_level_sunset |-> slss, sun_transit |-> st,
       sunrise_offset_by_degrees |->
           [z \in Zeniths |-> IF z <= GEOMETRIC_ZENITH + depression
                              THEN SomeInt(DawnAt(z)) ELSE NoneInt],
       sunset_offset_by_degrees |->
           [z \in Zeniths |-> IF z <= GEOMETRIC_ZENITH + depression
                              THEN SomeInt(DuskAt(z)) ELSE NoneInt]] :
      sr \in {NoneInt, SomeInt(Clock(5, 57))},
      slsr \in {NoneInt, SomeInt(Clock(6, 0))},
      ss \in {NoneInt, SomeInt(Clock(18, 6))},
      slss \in {NoneInt, SomeInt(Clock(18, 0))},
      st \in {NoneInt, SomeInt(Clock(12, 0))},
      depression \in Depressions }

DEFAULT_CANDLE_LIGHTING_OFFSET == 18

CandleLightingOffsets == {DEFAULT_CANDLE_LIGHTING_OFFSET, 40}

ZmanimCalendars ==
    [sun : Suns, use_elevation : BOOLEAN, candle_lighting_offset : CandleLightingOffsets]

\* The dicts passed as opts: any of the three keys, and a key the code
\* does not know.
OptsKeys == {"degrees", "offset", "zmanis_offset", "elevation"}

OptsValues(key) ==
    IF key = "degrees" THEN {0} \cup Degrees
    ELSE IF key = "offset" THEN {0, 72}
    ELSE IF key = "zmanis_offset" THEN {0, 90}
    ELSE {1}

OptsDicts ==
    UNION { { opts \in [keys -> UNION {OptsValues(key) : key \in keys}] :
                \A key \in keys : opts[key] \in OptsValues(key) } :
            keys \in SUBSET OptsKeys }

\* The boundaries passed as day_start and day_end.
DayBoundaries == {NoneInt, SomeInt(Clock(6, 0)), SomeInt(Clock(18, 0))}

\* The dates current_time falls on: the days around Shavuos (Sivan 5 to
\* 8, Sunday to Wednesday), and a Friday and a Saturday of that month.
SampleDays == {<<3, 5, 1>>, <<3, 6, 2>>, <<3, 7, 3>>, <<3, 8, 4>>, <<3, 12, 6>>, <<3, 13, 7>>}

SampleDates ==
    { c \in Calendars :
        /\ <<c.jewish_month, c.jewish_day, c.day_of_week>> \in SampleDays
        /\ ~c.leap /\ c.keviah = "kesidran"
        /\ ~c.in_israel /\ ~c.use_modern_holidays }

CurrentTimes ==
    [date : SampleDates,
     time : {Clock(12, 0), Clock(18, 0), Clock(18, 3), Clock(18, 34), Clock(20, 0)}]

TzaisArgs ==
    {[kind |-> "None"]}
        \cup [kind : {"dict"}, opts : {[degrees |-> 0], [offset |-> 72], [degrees |-> 161]}]
        \cup [kind : {"datetime"}, time : {Clock(18, 40)}]

(***************************************************************************)
(* The state machine of a ZmanimCalendar: construction, the assignments to *)
(* use_elevation and candle_lighting_offset, and one action per method,    *)
(* which leaves its arguments in args and what it returned in ret.         *)
(***************************************************************************)

InitZ ==
    /\ cal = NoObject
    /\ molad = NoObject
    /\ zc \in ZmanimCalendars
    /\ zc.use_elevation = FALSE
    /\ op = "__init__"
    /\ args = <<zc.candle_lighting_offset>>
    /\ ret = None

SetUseElevation ==
    \E b \in BOOLEAN :
        /\ zc' = [zc EXCEPT !.use_elevation = b]
        /\ op' = "use_elevation"
        /\ args' = <<b>>
        /\ ret' = None
        /\ UNCHANGED <<cal, molad>>

SetCandleLightingOffset ==
    \E n \in CandleLightingOffsets :
        /\ zc' = [zc EXCEPT !.candle_lighting_offset = n]
        /\ op' = "candle_lighting_offset"
        /\ args' = <<n>>
        /\ ret' = None
        /\ UNCHANGED <<cal, molad>>

ZCall(name, arguments, value) ==
    /\ op' = name
    /\ args' = arguments
    /\ ret' = value
    /\ UNCHANGED <<cal, zc, molad>>

Call_hanetz == ZCall("hanetz", NoArgs, hanetz(zc))

Call_shkia == ZCall("shkia", NoArgs, shkia(zc))

Call_tzais ==
    \/ ZCall("tzais", NoArgs, tzais(zc, TZAIS_DEFAULT_OPTS))
    \/ \E opts \in OptsDicts : ZCall("tzais", <<opts>>, tzais(zc, opts))

Call_tzais_72 == ZCall("tzais_72", NoArgs, tzais_72(zc))

Call_alos ==
    \/ ZCall("alos", NoArgs, alos(zc, ALOS_DEFAULT_OPTS))
    \/ \E opts \in OptsDicts : ZCall("alos", <<opts>>, alos(zc, opts))

Call_alos_72 == ZCall("alos_72", NoArgs, alos_72(zc))

Call_chatzos == ZCall("chatzos", NoArgs, chatzos(zc))

Call_candle_lighting == ZCall("candle_lighting", NoArgs, candle_lighting(zc))

Call_sof_zman_shma ==
    \E day_start \in DayBoundaries \ {NoneInt}, day_end \in DayBoundaries \ {NoneInt} :
        ZCall("sof_zman_shma", <<day_start, day_end>>, sof_zman_shma(zc, day_start, day_end))

Call_sof_zman_shma_gra == ZCall("sof_zman_shma_gra", NoArgs, sof_zman_shma_gra(zc))

Call_sof_zman_shma_mga == ZCall("sof_zman_shma_mga", NoArgs, sof_zman_shma_mga(zc))

Call_sof_zman_tfila ==
    \E day_start \in DayBoundaries, day_end \in DayBoundaries :
        ZCall("sof_zman_tfila", <<day_start, day_end>>, sof_zman_tfila(zc, day_start, day_end))

Call_sof_zman_tfila_gra == ZCall("sof_zman_tfila_gra", NoArgs, sof_zman_tfila_gra(zc))

Call_sof_zman_tfila_mga == ZCall("sof_zman_tfila_mga", NoArgs, sof_zman_tfila_mga(zc))

Call_mincha_gedola ==
    \E day_start \in DayBoundaries, day_end \in DayBoundaries :
        ZCall("mincha_gedola", <<day_start, day_end>>, mincha_gedola(zc, day_start, day_end))

Call_mincha_ketana ==
    \E day_start \in DayBoundaries, day_end \in DayBoundaries :
        ZCall("mincha_ketana", <<day_start, day_end>>, mincha_ketana(zc, day_start, day_end))

Call_plag_hamincha ==
    \E day_start \in DayBoundaries, day_end \in DayBoundaries :
        ZCall("plag_hamincha", <<day_start, day_end>>, plag_hamincha(zc, day_start, day_end))

Call_shaah_zmanis_gra == ZCall("shaah_zmanis_gra", NoArgs, shaah_zmanis_gra(zc))

Call_shaah_zmanis_mga == ZCall("shaah_zmanis_mga", NoArgs, shaah_zmanis_mga(zc))

NextZ ==
    \/ SetUseElevation
    \/ SetCandleLightingOffset
    \/ Call_hanetz
    \/ Call_shkia
    \/ Call_tzais
    \/ Call_tzais_72
    \/ Call_alos
    \/ Call_alos_72
    \/ Call_chatzos
    \/ Call_candle_lighting
    \/ Call_sof_zman_shma
    \/ Call_sof_zman_shma_gra
    \/ Call_sof_zman_shma_mga
    \/ Call_sof_zman_tfila
    \/ Call_sof_zman_tfila_gra
    \/ Call_sof_zman_tfila_mga
    \/ Call_mincha_gedola
    \/ Call_mincha_ketana
    \/ Call_plag_hamincha
    \/ Call_shaah_zmanis_gra
    \/ Call_shaah_zmanis_mga

SpecZ == InitZ /\ [][NextZ]_vars

TypeOKZ == zc \in ZmanimCalendars

(***************************************************************************)
(* The state machine of the calls of ZmanimCalendar.is_assur_bemelacha:    *)
(* calendars that have a sunrise and differ in their sunsets, the          *)
(* assignment to use_elevation, and the call with its arguments, in_israel *)
(* given or left out.                                                      *)
(***************************************************************************)

InitM ==
    /\ InitZ
    /\ zc.sun.sunrise # NoneInt
    /\ zc.sun.sea_level_sunrise # NoneInt
    /\ zc.sun.sun_transit # NoneInt
    /\ zc.candle_lighting_offset = DEFAULT_CANDLE_LIGHTING_OFFSET

Call_ZmanimCalendar_is_assur_bemelacha ==
    \E current_time \in CurrentTimes, tzais_arg \in TzaisArgs :
        \/ ZCall("ZmanimCalendar.is_assur_bemelacha", <<current_time, tzais_arg>>,
                 ZmanimCalendar_is_assur_bemelacha(zc, current_time, tzais_arg, FALSE))
        \/ \E in_israel \in BOOLEAN :
               ZCall("ZmanimCalendar.is_assur_bemelacha",
                     <<current_time, tzais_arg, in_israel>>,
                     ZmanimCalendar_is_assur_bemelacha(zc, current_time, tzais_arg, in_israel))

NextM ==
    \/ SetUseElevation
    \/ Call_ZmanimCalendar_is_assur_bemelacha

SpecM == InitM /\ [][NextM]_vars

(***************************************************************************)
(* The molad and the times of Kiddush Levana.  Here an instant is a whole  *)
(* number of thirds of a second, so that a chelek (10/3 seconds) is 10 of  *)
(* them; floats are taken as exact.  molad holds what JewishDate.molad()   *)
(* answers for the month of the date, and the local mean time offset of    *)
(* GeoLocation for Har Habayis.                                            *)
(***************************************************************************)

\* JewishDate.CHALAKIM_PER_MONTH.
CHALAKIM_PER_MONTH == 765433

\* timedelta(seconds=n), timedelta(days=n) and a number n of chalakim.
Seconds(n) == n * 3

Days(n) == Seconds(n * 24 * 60 * 60)

Chalakim(n) == n * 10

\* m.molad_chalakim * 10 / 3.0 seconds after the minute molad_minutes of
\* the hour molad_hours of the day, on a clock two hours ahead of UTC,
\* less the local mean time offset.
molad_as_datetime(self) ==
    LET m == self
        seconds == Chalakim(m.molad_chalakim)
        time == Days(m.gregorian_day) + Seconds((m.molad_hours - 2) * 60 * 60)
                  + Seconds(m.molad_minutes * 60) + seconds
    IN  time - m.local_mean_time_offset

techilas_zman_kiddush_levana_3_days(self) == molad_as_datetime(self) + Days(3)

techilas_zman_kiddush_levana_7_days(self) == molad_as_datetime(self) + Days(7)

\* sof_zman_kiddush_levana_between_moldos adding the whole month:
\* CHALAKIM_PER_MONTH * 10 / 3.0 seconds.
sof_zman_kiddush_levana_between_moldos_whole_month(self) ==
    molad_as_datetime(self) + Chalakim(CHALAKIM_PER_MONTH)

\* half_molad_in_seconds is CHALAKIM_PER_MONTH * 10 / 6.0.
sof_zman_kiddush_levana_between_moldos(self) ==
    molad_as_datetime(self) + (Chalakim(CHALAKIM_PER_MONTH) \div 2)

sof_zman_kiddush_levana_15_days(self) == molad_as_datetime(self) + Days(15)

\* The moldos of the model: early and late in a day, on two days, with
\* every number of chalakim of a minute.
Molads ==
    [gregorian_day : {1, 2}, molad_hours : {0, 23}, molad_minutes : {0, 59},
     molad_chalakim : 0..17, local_mean_time_offset : {0, Seconds(20 * 60 + 56)}]

InitK ==
    /\ cal = NoObject
    /\ zc = NoObject
    /\ molad \in Molads
    /\ op = "__init__"
    /\ args = NoArgs
    /\ ret = None

\* The date of the calendar is set to a day of another month.
SetDate ==
    \E m \in Molads :
        /\ molad' = m
        /\ op' = "set_date"
        /\ args' = NoArgs
        /\ ret' = None
        /\ UNCHANGED <<cal, zc>>

KCall(name, value) ==
    /\ op' = name
    /\ args' = NoArgs
    /\ ret' = value
    /\ UNCHANGED <<cal, zc, molad>>

Call_molad_as_datetime == KCall("molad_as_datetime", molad_as_datetime(molad))

Call_techilas_zman_kiddush_levana_3_days ==
    KCall("techilas_zman_kiddush_levana_3_days", techilas_zman_kiddush_levana_3_days(molad))

Call_techilas_zman_kiddush_levana_7_days ==
    KCall("techilas_zman_kiddush_levana_7_days", techilas_zman_kiddush_levana_7_days(molad))

Call_sof_zman_kiddush_levana_between_moldos ==
    KCall("sof_zman_kiddush_levana_between_moldos",
          sof_zman_kiddush_levana_between_moldos(molad))

Call_sof_zman_kiddush_levana_15_days ==
    KCall("sof_zman_kiddush_levana_15_days", sof_zman_kiddush_levana_15_days(molad))

NextK ==
    \/ SetDate
    \/ Call_molad_as_datetime
    \/ Call_techilas_zman_kiddush_levana_3_days
    \/ Call_techilas_zman_kiddush_levana_7_days
    \/ Call_sof_zman_kiddush_levana_between_moldos
    \/ Call_sof_zman_kiddush_levana_15_days

SpecK == InitK /\ [][NextK]_vars

(***************************************************************************)
(* The state machine of the flags: a JewishCalendar and a ZmanimCalendar   *)
(* as their constructors leave them, the assignments to in_israel,         *)
(* use_modern_holidays, use_elevation and candle_lighting_offset, and      *)
(* queries that read them.                                                 *)
(***************************************************************************)

\* Sivan 6 and 7, and Iyar 28 (Yom Yerushalayim), in a plain year.
FlagDays == {<<3, 6, 2>>, <<3, 7, 3>>, <<2, 28, 4>>}

InitF ==
    /\ cal \in Calendars
    /\ <<cal.jewish_month, cal.jewish_day, cal.day_of_week>> \in FlagDays
    /\ ~cal.leap /\ cal.keviah = "kesidran"
    /\ cal.in_israel = FALSE
    /\ cal.use_modern_holidays = FALSE
    /\ molad = NoObject
    /\ zc \in ZmanimCalendars
    /\ zc.sun.sunrise # NoneInt
    /\ zc.sun.sea_level_sunrise # NoneInt
    /\ zc.sun.sun_transit # NoneInt
    /\ zc.use_elevation = FALSE
    /\ zc.candle_lighting_offset = DEFAULT_CANDLE_LIGHTING_OFFSET
    /\ op = "__init__"
    /\ args = NoArgs
    /\ ret = None

NextF ==
    \/ SetInIsrael
    \/ SetUseModernHolidays
    \/ SetUseElevation
    \/ SetCandleLightingOffset
    \/ Call_significant_day
    \/ Call_is_assur_bemelacha
    \/ Call_is_tomorrow_assur_bemelacha
    \/ Call_hanetz
    \/ Call_shkia
    \/ Call_tzais_72
    \/ Call_candle_lighting

SpecF == InitF /\ [][NextF]_vars

(***************************************************************************)
(* What the properties below share.                                        *)
(***************************************************************************)
\* The step is a call of forward().
IsForward == op' = "forward"

\* Day x of self's month, with the day of the week that day has when self
\* has its own.
on_day(self, x) ==
    [self EXCEPT !.jewish_day = x,
                 !.day_of_week = ((@ + 34 + x - self.jewish_day) % 7) + 1]

\* The days of self's month on which significant_day() returns tag.
days_tagged(self, tag) ==
    { x \in 1..days_in_jewish_month(self) :
        significant_day(on_day(self, x)) = tag }

(***************************************************************************)
(* C1: significant_day() tags the work-prohibited festival days by locale. *)
(* Diaspora: pesach on Nissan 15, 16, 21, 22, shavuos on Sivan 6, 7,       *)
(* succos on Tishrei 15, 16, shemini_atzeres on Tishrei 22, simchas_torah  *)
(* on Tishrei 23.  Israel: pesach only on Nissan 15, 21, shavuos only on   *)
(* Sivan 6 (no tag on Sivan 7), succos only on Tishrei 15, shemini_atzeres *)
(* on Tishrei 22, no tag on Tishrei 23 and simchas_torah never.  For every *)
(* day_of_week and both values of use_modern_holidays.                     *)
(***************************************************************************)
C1_FestivalDays ==
    op = "significant_day" =>
        LET m == cal.jewish_month
            d == cal.jewish_day
            il == cal.in_israel
        IN  /\ (ret = "pesach") <=>
                    (m = 1 /\ d \in (IF il THEN {15, 21} ELSE {15, 16, 21, 22}))
            /\ (ret = "shavuos") <=>
                    (m = 3 /\ d \in (IF il THEN {6} ELSE {6, 7}))
            /\ (ret = "succos") <=>
                    (m = 7 /\ d \in (IF il THEN {15} ELSE {15, 16}))
            /\ (ret = "shemini_atzeres") <=> (m = 7 /\ d = 22)
            /\ (ret = "simchas_torah") <=> (m = 7 /\ d = 23 /\ ~il)
            /\ (il /\ m = 3 /\ d = 7) => ret = None
            /\ (il /\ m = 7 /\ d = 23) => ret = None

C1_Witness ==
    /\ op = "significant_day"
    /\ cal.in_israel /\ cal.use_modern_holidays
    /\ cal.jewish_month = 7 /\ cal.jewish_day = 23 /\ cal.day_of_week = 5
    /\ ret = None

(***************************************************************************)
(* C2: Tzom Gedalyah (Tishrei 3), Seventeen of Tammuz (Tammuz 17) and      *)
(* Tisha B'Av (Av 9).  If the fixed day is not Saturday the tag is         *)
(* returned on the fixed day and not on the following day; if it is        *)
(* Saturday the tag is not returned on the fixed day and is returned on    *)
(* the next day, a Sunday.  Over the days of the month the tag is returned *)
(* on exactly one day, never a Saturday.                                   *)
(***************************************************************************)
DeferredFasts ==
    { <<7, 3, "tzom_gedalyah">>, <<4, 17, "seventeen_of_tammuz">>,
      <<5, 9, "tisha_beav">> }

C2_OnTheDay ==
    op = "significant_day" =>
        \A f \in DeferredFasts :
            /\ (cal.jewish_month = f[1] /\ cal.jewish_day = f[2]) =>
                    ((ret = f[3]) <=> (cal.day_of_week # 7))
            /\ (ret = f[3]) =>
                    /\ cal.jewish_month = f[1]
                    /\ cal.day_of_week # 7
                    /\ days_tagged(cal, f[3]) = {cal.jewish_day}
            /\ cal.jewish_month = f[1] =>
                    Cardinality(days_tagged(cal, f[3])) = 1

\* forward() from the fixed day, after significant_day() answered there.
C2_NextDay ==
    (IsForward /\ op = "significant_day") =>
        \A f \in DeferredFasts :
            (cal.jewish_month = f[1] /\ cal.jewish_day = f[2]) =>
                /\ cal'.jewish_month = f[1] /\ cal'.jewish_day = f[2] + 1
                /\ (ret # f[3]) =>
                        /\ significant_day(cal') = f[3]
                        /\ cal'.day_of_week = 1
                /\ (ret = f[3]) => significant_day(cal') # f[3]

C2_DeferredFasts == [] C2_OnTheDay /\ [][C2_NextDay]_vars

C2_Witness ==
    /\ op = "significant_day"
    /\ cal.jewish_month = 5 /\ cal.jewish_day = 10 /\ cal.day_of_week = 1
    /\ ret = "tisha_beav"
    /\ significant_day(on_day(cal, 9)) = None

(***************************************************************************)
(* C3 (as amended): of the six fasts is_taanis() recognises, three are     *)
(* deferred from a Saturday to the Sunday after it (seventeen_of_tammuz,   *)
(* tisha_beav, tzom_gedalyah), taanis_esther is moved from a Saturday to   *)
(* the Thursday two days before, and yom_kippur and tenth_of_teves are     *)
(* returned on their fixed dates (Tishrei 10, Teves 10) on every day of    *)
(* the week, Saturday included.                                            *)
(***************************************************************************)
\* The month in which Purim falls: Adar, or Adar II in a leap year.
IsPurimMonth(self) ==
    self.jewish_month = (IF is_jewish_leap_year(self) THEN 13 ELSE 12)

C3_FastsOnSaturday ==
    (op = "significant_day" /\ cal.day_of_week = 7) =>
        /\ \A f \in DeferredFasts :
              (cal.jewish_month = f[1] /\ cal.jewish_day = f[2]) =>
                  /\ ret # f[3]
                  /\ significant_day(tomorrow(cal)) = f[3]
                  /\ tomorrow(cal).day_of_week = 1
        /\ (IsPurimMonth(cal) /\ cal.jewish_day = 13) =>
              /\ ret # "taanis_esther"
              /\ significant_day(tomorrow(cal)) # "taanis_esther"
              /\ significant_day(on_day(cal, 11)) = "taanis_esther"
              /\ on_day(cal, 11).day_of_week = 5
        /\ (cal.jewish_month = 7 /\ cal.jewish_day = 10) =>
              /\ ret = "yom_kippur"
              /\ significant_day(tomorrow(cal)) # "yom_kippur"
        /\ (cal.jewish_month = 10 /\ cal.jewish_day = 10) =>
              /\ ret = "tenth_of_teves"
              /\ significant_day(tomorrow(cal)) # "tenth_of_teves"

C3_Witness ==
    /\ op = "significant_day"
    /\ cal.jewish_month = 7 /\ cal.jewish_day = 10 /\ cal.day_of_week = 7
    /\ ret = "yom_kippur"
    /\ is_taanis(cal)

\* C3 as stated: every fast of is_taanis() whose fixed date is a Saturday
\* is not returned on that date and is returned on the Sunday after it
\* (taanis_esther: on the Thursday two days before).
FixedFasts ==
    { <<4, 17, "seventeen_of_tammuz">>, <<5, 9, "tisha_beav">>,
      <<7, 3, "tzom_gedalyah">>, <<7, 10, "yom_kippur">>,
      <<10, 10, "tenth_of_teves">> }

C3_AsStated ==
    (op = "significant_day" /\ cal.day_of_week = 7) =>
        /\ \A f \in FixedFasts :
              (cal.jewish_month = f[1] /\ cal.jewish_day = f[2]) =>
                  /\ ret # f[3]
                  /\ significant_day(tomorrow(cal)) = f[3]
        /\ (IsPurimMonth(cal) /\ cal.jewish_day = 13) =>
              /\ ret # "taanis_esther"
              /\ significant_day(on_day(cal, 11)) = "taanis_esther"

(***************************************************************************)
(* C4: Purim.  In Adar of a non-leap year and in Adar II of a leap year:   *)
(* taanis_esther on day 13 when it is not Saturday, or on day 11 when that *)
(* is Thursday (day 13 is Saturday), purim on day 14, shushan_purim on day *)
(* 15.  In Adar of a leap year: purim_katan on day 14, shushan_purim_katan *)
(* on day 15, no tag on any other day.  In a Purim month exactly one day   *)
(* carries taanis_esther, and it is not a Saturday.                        *)
(***************************************************************************)
C4_Purim ==
    op = "significant_day" =>
        LET d == cal.jewish_day
            w == cal.day_of_week
        IN  /\ IsPurimMonth(cal) =>
                  /\ (ret = "taanis_esther") <=>
                          ((d = 13 /\ w # 7) \/ (d = 11 /\ w = 5))
                  /\ (d = 11 /\ w = 5) <=> (d = 11 /\ on_day(cal, 13).day_of_week = 7)
                  /\ (ret = "purim") <=> (d = 14)
                  /\ (ret = "shushan_purim") <=> (d = 15)
                  /\ Cardinality(days_tagged(cal, "taanis_esther")) = 1
                  /\ (ret = "taanis_esther") => w # 7
            /\ (cal.jewish_month = 12 /\ is_jewish_leap_year(cal)) =>
                  ret = (CASE d = 14 -> "purim_katan"
                           [] d = 15 -> "shushan_purim_katan"
                           [] OTHER -> None)
            /\ ret \in {"taanis_esther", "purim", "shushan_purim"} =>
                  IsPurimMonth(cal)
            /\ ret \in {"purim_katan", "shushan_purim_katan"} =>
                  (cal.jewish_month = 12 /\ is_jewish_leap_year(cal))

C4_Witness ==
    /\ op = "significant_day"
    /\ is_jewish_leap_year(cal)
    /\ cal.jewish_month = 13 /\ cal.jewish_day = 11 /\ cal.day_of_week = 5
    /\ ret = "taanis_esther"
    /\ significant_day(on_day(cal, 13)) = None
    /\ significant_day([cal EXCEPT !.jewish_month = 12]) = None

(***************************************************************************)
(* C5: Chanukah is exactly 8 consecutive days from Kislev 25, whether      *)
(* Kislev has 29 or 30 days: day by day from Kislev 25 day_of_chanukah()   *)
(* returns 1, 2, ..., 8 (also across the end of Kislev), is_chanukah() is  *)
(* true on exactly those days, and day_of_chanukah() is None before Kislev *)
(* 25, on the day after the 8th and outside Kislev and Teves.              *)
(***************************************************************************)
\* The days since Kislev 24, for a date in Kislev or Teves.
days_from_kislev_24(self) ==
    IF self.jewish_month = 9
    THEN self.jewish_day - 24
    ELSE self.jewish_day + (IF is_kislev_short(self) THEN 29 ELSE 30) - 24

in_chanukah_span(self) ==
    /\ self.jewish_month \in {9, 10}
    /\ days_from_kislev_24(self) \in 1..8

C5_OnTheDay ==
    /\ op = "day_of_chanukah" =>
          ret = (IF in_chanukah_span(cal)
                 THEN {days_from_kislev_24(cal)}
                 ELSE {})
    /\ op = "is_chanukah" => (ret <=> in_chanukah_span(cal))

\* forward() after day_of_chanukah() answered: the next day is the next
\* day of Chanukah, the day after the 8th is none, and the only day that
\* follows a day that is none is the 1st, Kislev 25.
C5_NextDay ==
    (IsForward /\ op = "day_of_chanukah") =>
        /\ \A n \in 1..7 : (ret = {n}) => day_of_chanukah(cal') = {n + 1}
        /\ (ret = {8}) => day_of_chanukah(cal') = {}
        /\ (ret = {} /\ day_of_chanukah(cal') # {}) =>
              /\ day_of_chanukah(cal') = {1}
              /\ cal'.jewish_month = 9 /\ cal'.jewish_day = 25

C5_Chanukah == [] C5_OnTheDay /\ [][C5_NextDay]_vars

C5_Witness ==
    /\ op = "day_of_chanukah"
    /\ is_kislev_short(cal)
    /\ cal.jewish_month = 10 /\ cal.jewish_day = 3
    /\ ret = {8}

(***************************************************************************)
(* C6: is_yom_tov_sheni() is true iff the date is Tishrei 2 (in either     *)
(* locale) or in_israel is False and the date is Tishrei 16, Tishrei 23,   *)
(* Nissan 16, Nissan 22 or Sivan 7.  When it is true,                      *)
(* is_yom_tov_assur_bemelacha() is true too, and the day before satisfies  *)
(* is_erev_yom_tov_sheni().                                                *)
(***************************************************************************)
SecondDays == { <<7, 16>>, <<7, 23>>, <<1, 16>>, <<1, 22>>, <<3, 7>> }

C6_OnTheDay ==
    /\ op = "is_yom_tov_sheni" =>
          /\ ret <=>
                \/ (cal.jewish_month = 7 /\ cal.jewish_day = 2)
                \/ /\ ~cal.in_israel
                   /\ <<cal.jewish_month, cal.jewish_day>> \in SecondDays
          /\ ret => is_yom_tov_assur_bemelacha(cal)
    /\ (op = "is_yom_tov_assur_bemelacha" /\ is_yom_tov_sheni(cal)) => ret

\* forward() onto a second day: the day left was its erev.
C6_DayBefore ==
    (IsForward /\ is_yom_tov_sheni(cal')) =>
        /\ is_erev_yom_tov_sheni(cal)
        /\ op = "is_erev_yom_tov_sheni" => ret

C6_YomTovSheni == [] C6_OnTheDay /\ [][C6_DayBefore]_vars

C6_Witness ==
    /\ op = "is_yom_tov_sheni"
    /\ cal.in_israel
    /\ cal.jewish_month = 7 /\ cal.jewish_day = 2
    /\ ret
    /\ ~is_yom_tov_sheni([cal EXCEPT !.jewish_day = 16])

(***************************************************************************)
(* C7 (as amended): in every month handler at most one rule's condition    *)
(* holds, except on Nissan 16 and Tishrei 16 with in_israel False, where   *)
(* the festival rule (pesach, succos) and the chol hamoed rule             *)
(* (range(16, 21)) both hold and the festival rule, tested first, gives    *)
(* the tag.  significant_day() finds a handler for every month 1..13 and   *)
(* returns one tag of SIGNIFICANT_DAYS or None.                            *)
(***************************************************************************)
\* The rules of a chain whose conditions hold.
satisfied(rules) == { i \in 1..Len(rules) : rules[i].c }

tags_of(rules, held) == { rules[i].t : i \in held }

C7_RulesOverlapOnDay16 ==
    op = "significant_day" =>
        LET rules == month_rules(cal)
            held == satisfied(rules)
            both == /\ ~cal.in_israel
                    /\ cal.jewish_month \in {1, 7}
                    /\ cal.jewish_day = 16
        IN  /\ jewish_month_name(cal) \in Handlers
            /\ ret \in SIGNIFICANT_DAYS \cup {None}
            /\ ~both =>
                  /\ Cardinality(held) <= 1
                  /\ tags_of(rules, held) = {ret} \ {None}
            /\ both =>
                  /\ Cardinality(held) = 2
                  /\ tags_of(rules, held) =
                        (IF cal.jewish_month = 1
                         THEN {"pesach", "chol_hamoed_pesach"}
                         ELSE {"succos", "chol_hamoed_succos"})
                  /\ ret = (IF cal.jewish_month = 1 THEN "pesach" ELSE "succos")
                  /\ \A i \in held : rules[i].t = ret => \A j \in held : i <= j

C7_Witness ==
    /\ op = "significant_day"
    /\ ~cal.in_israel
    /\ cal.jewish_month = 7 /\ cal.jewish_day = 16
    /\ Cardinality(satisfied(month_rules(cal))) = 2
    /\ ret = "succos"

\* C7 as stated: at most one rule's condition holds on any date, so the
\* order of the tests does not matter; a handler is found and one tag of
\* SIGNIFICANT_DAYS or None is returned.
C7_AsStated ==
    op = "significant_day" =>
        /\ Cardinality(satisfied(month_rules(cal))) <= 1
        /\ ret = last_match(month_rules(cal), 1)
        /\ jewish_month_name(cal) \in Handlers
        /\ ret \in SIGNIFICANT_DAYS \cup {None}

(***************************************************************************)
(* C8: is_yom_tov() is true exactly when significant_day() returns a tag   *)
(* that does not start with erev_ and is not a fast other than yom_kippur: *)
(* false for the five other fasts and for every erev_ tag, true for        *)
(* yom_kippur.  On Tishrei 1 with in_israel False significant_day() is     *)
(* rosh_hashana and is_yom_tov() and is_assur_bemelacha() are true, on     *)
(* every day of the week.                                                  *)
(***************************************************************************)
NotYomTovTags ==
    { "erev_rosh_hashana", "erev_yom_kippur", "erev_succos", "erev_pesach",
      "erev_shavuos", "seventeen_of_tammuz", "tisha_beav", "tzom_gedalyah",
      "tenth_of_teves", "taanis_esther" }

C8_IsYomTov ==
    /\ op = "is_yom_tov" =>
          /\ ret <=> significant_day(cal) \in SIGNIFICANT_DAYS \ NotYomTovTags
          /\ significant_day(cal) = "yom_kippur" => ret
    /\ (cal.jewish_month = 7 /\ cal.jewish_day = 1 /\ ~cal.in_israel) =>
          /\ op = "significant_day" => ret = "rosh_hashana"
          /\ op = "is_yom_tov" => ret
          /\ op = "is_assur_bemelacha" => ret

C8_Witness ==
    /\ op = "is_yom_tov"
    /\ cal.jewish_month = 7 /\ cal.jewish_day = 10
    /\ is_taanis(cal)
    /\ ret

(***************************************************************************)
(* C9: has_delayed_candle_lighting() is true iff the date is not a Friday, *)
(* the next day is melacha-prohibited (has_candle_lighting(), which is     *)
(* is_tomorrow_assur_bemelacha()) and the date itself is melacha-          *)
(* prohibited (Saturday or a work-prohibited Yom Tov): never on a Friday,  *)
(* never on a weekday that is neither.                                     *)
(***************************************************************************)
AssurBemelachaTags ==
    { "pesach", "shavuos", "rosh_hashana", "yom_kippur", "succos",
      "shemini_atzeres", "simchas_torah" }

C9_DelayedCandleLighting ==
    /\ op = "has_delayed_candle_lighting" =>
          /\ ret <=>
                /\ cal.day_of_week # 6
                /\ is_tomorrow_assur_bemelacha(cal)
                /\ \/ cal.day_of_week = 7
                   \/ significant_day(cal) \in AssurBemelachaTags
          /\ cal.day_of_week = 6 => ~ret
          /\ (cal.day_of_week # 7 /\ ~is_yom_tov_assur_bemelacha(cal)) => ~ret
    /\ op = "has_candle_lighting" => (ret <=> is_tomorrow_assur_bemelacha(cal))
    /\ op = "is_assur_bemelacha" =>
          (ret <=> (\/ cal.day_of_week = 7
                    \/ significant_day(cal) \in AssurBemelachaTags))

C9_Witness ==
    /\ op = "has_delayed_candle_lighting"
    /\ cal.jewish_month = 1 /\ cal.jewish_day = 14 /\ cal.day_of_week = 7
    /\ ret

(***************************************************************************)
(* C10: with use_modern_holidays False significant_day() never returns     *)
(* yom_hashoah, yom_hazikaron, yom_haatzmaut or yom_yerushalayim; with it  *)
(* True, yom_hashoah is returned only in Nissan on a day in 26..28,        *)
(* yom_hazikaron and yom_haatzmaut only in Iyar on a day in 2..6, and      *)
(* yom_yerushalayim exactly on Iyar 28, on every day of the week.  Setting *)
(* the flag never changes the tag of a date that carries another tag.      *)
(***************************************************************************)
ModernTags ==
    { "yom_hashoah", "yom_hazikaron", "yom_haatzmaut", "yom_yerushalayim" }

C10_OnTheDay ==
    op = "significant_day" =>
        /\ ~cal.use_modern_holidays => ret \notin ModernTags
        /\ ret = "yom_hashoah" =>
              (cal.jewish_month = 1 /\ cal.jewish_day \in 26..28)
        /\ ret \in {"yom_hazikaron", "yom_haatzmaut"} =>
              (cal.jewish_month = 2 /\ cal.jewish_day \in 2..6)
        /\ cal.use_modern_holidays =>
              ((ret = "yom_yerushalayim") <=>
                  (cal.jewish_month = 2 /\ cal.jewish_day = 28))

\* An assignment to use_modern_holidays after significant_day() returned a
\* tag that is not a modern one: the date's tag stays.
C10_Toggle ==
    /\ (op' = "use_modern_holidays" /\ op = "significant_day"
            /\ ret \in SIGNIFICANT_DAYS \ ModernTags) =>
          significant_day(cal') = ret
    /\ (op' = "use_modern_holidays"
            /\ significant_day(cal') \in SIGNIFICANT_DAYS \ ModernTags) =>
          significant_day(cal) = significant_day(cal')

C10_ModernHolidays == [] C10_OnTheDay /\ [][C10_Toggle]_vars

C10_Witness ==
    /\ op = "significant_day"
    /\ cal.use_modern_holidays
    /\ cal.jewish_month = 2 /\ cal.jewish_day = 28 /\ cal.day_of_week = 7
    /\ ret = "yom_yerushalayim"
    /\ significant_day([cal EXCEPT !.use_modern_holidays = FALSE]) = None

(***************************************************************************)
(* C19: for every date D and the date D+1 that forward() reaches from it   *)
(* (same in_israel), is_tomorrow_assur_bemelacha() on D is true iff        *)
(* is_assur_bemelacha() on D+1 is true: has_candle_lighting() holds on     *)
(* exactly the days before a Shabbos or a work-prohibited Yom Tov, in      *)
(* Israel and in the Diaspora.                                             *)
(***************************************************************************)
TomorrowQueries == { "is_tomorrow_assur_bemelacha", "has_candle_lighting" }

C19_OnTheDay ==
    op \in TomorrowQueries => (ret <=> is_assur_bemelacha(tomorrow(cal)))

C19_NextDay ==
    IsForward =>
        /\ is_tomorrow_assur_bemelacha(cal) <=> is_assur_bemelacha(cal')
        /\ has_candle_lighting(cal) <=> is_assur_bemelacha(cal')
        /\ op \in TomorrowQueries => (ret <=> is_assur_bemelacha(cal'))

C19_TomorrowIsTomorrow == [] C19_OnTheDay /\ [][C19_NextDay]_vars

C19_Witness ==
    /\ op = "has_candle_lighting"
    /\ cal.in_israel
    /\ cal.jewish_month = 1 /\ cal.jewish_day = 20 /\ cal.day_of_week = 3
    /\ ret
    /\ significant_day(tomorrow(cal)) = "pesach"

(***************************************************************************)
(* C20: significant_shabbos() returns None when day_of_week is not 7; on   *)
(* Saturdays each tag covers 7 consecutive dates (parshas_shekalim: days   *)
(* 25..30 of the month before the last and day 1 of the last;              *)
(* parshas_zachor: days 7..13 of the last month; parshas_parah: days       *)
(* 17..23 of the last month; parshas_hachodesh: days 24..29 of the last    *)
(* month and Nissan 1; shabbos_hagadol: Nissan 8..14; shabbos_shuva:       *)
(* Tishrei 3..9); the windows are disjoint, so each tag is returned on     *)
(* exactly one date of a year, leap or not.                                *)
(***************************************************************************)
ShabbosTags ==
    { "parshas_hachodesh", "shabbos_hagadol", "shabbos_shuva",
      "parshas_shekalim", "parshas_zachor", "parshas_parah" }

\* The place (1..7) of self's date in the window of tag; 0 outside it.
window_place(self, tag) ==
    LET m == self.jewish_month
        d == self.jewish_day
        last == months_in_jewish_year(self)
    IN  CASE tag = "parshas_shekalim" ->
               IF m = last - 1 /\ d \in 25..30 THEN d - 24
               ELSE IF m = last /\ d = 1 THEN 7 ELSE 0
          [] tag = "parshas_zachor" ->
               IF m = last /\ d \in 7..13 THEN d - 6 ELSE 0
          [] tag = "parshas_parah" ->
               IF m = last /\ d \in 17..23 THEN d - 16 ELSE 0
          [] tag = "parshas_hachodesh" ->
               IF m = last /\ d \in 24..29 THEN d - 23
               ELSE IF m = 1 /\ d = 1 THEN 7 ELSE 0
          [] tag = "shabbos_hagadol" ->
               IF m = 1 /\ d \in 8..14 THEN d - 7 ELSE 0
          [] tag = "shabbos_shuva" ->
               IF m = 7 /\ d \in 3..9 THEN d - 2 ELSE 0

\* The date n days after self.
RECURSIVE days_after(_, _)
days_after(self, n) ==
    IF n = 0 THEN self ELSE days_after(tomorrow(self), n - 1)

C20_OnTheDay ==
    op = "significant_shabbos" =>
        /\ cal.day_of_week # 7 => ret = None
        /\ ret \in ShabbosTags \cup {None}
        /\ \A tag \in ShabbosTags :
              /\ (ret = tag) <=>
                    (cal.day_of_week = 7 /\ window_place(cal, tag) >= 1)
              /\ window_place(cal, tag) = 1 =>
                    /\ \A n \in 0..6 :
                          window_place(days_after(cal, n), tag) = n + 1
                    /\ window_place(days_after(cal, 7), tag) = 0
                    /\ Cardinality({ n \in 0..6 :
                          significant_shabbos(days_after(cal, n)) = tag }) = 1
        /\ Cardinality({ tag \in ShabbosTags :
                            window_place(cal, tag) >= 1 }) <= 1

\* forward() walks a window from its first date to its seventh.
C20_NextDay ==
    IsForward =>
        \A tag \in ShabbosTags :
            /\ \A n \in 1..6 :
                  window_place(cal, tag) = n => window_place(cal', tag) = n + 1
            /\ window_place(cal, tag) = 7 => window_place(cal', tag) = 0
            /\ window_place(cal, tag) = 0 => window_place(cal', tag) \in {0, 1}

C20_SignificantShabbos == [] C20_OnTheDay /\ [][C20_NextDay]_vars

C20_Witness ==
    /\ op = "significant_shabbos"
    /\ is_jewish_leap_year(cal)
    /\ cal.jewish_month = 13 /\ cal.jewish_day = 1 /\ cal.day_of_week = 7
    /\ ret = "parshas_shekalim"
    /\ significant_shabbos([cal EXCEPT !.jewish_month = 11,
                                        !.jewish_day = 25]) = None

(***************************************************************************)
(* What the properties of ZmanimCalendar share.                            *)
(***************************************************************************)

\* The dict a call passed, and whether it passed one.
PassedOpts == Len(args) = 1

OptsPassed == args[1]

\* opts with each of the three options it does not hold set to a default,
\* and nothing else.
Completed(opts, default_degrees) ==
    [degrees       |-> IF "degrees" \in DOMAIN opts THEN opts["degrees"] ELSE default_degrees,
     offset        |-> IF "offset" \in DOMAIN opts THEN opts["offset"] ELSE 0,
     zmanis_offset |-> IF "zmanis_offset" \in DOMAIN opts THEN opts["zmanis_offset"] ELSE 0]

(***************************************************************************)
(* C12 (as amended): in tzais(opts) and alos(opts) an offset or a          *)
(* zmanis_offset that is not supplied is 0 and a key the code does not     *)
(* know is ignored.  degrees is 8.5 for tzais and 16.1 for alos only when  *)
(* no dict is passed at all; a dict that is passed without "degrees" has   *)
(* degrees 0: the call returns what it returns for the same dict with      *)
(* degrees 0, offset and zmanis_offset filled in.                          *)
(***************************************************************************)
C12_Defaults ==
    /\ op = "tzais" =>
         ret = IF PassedOpts
               THEN tzais(zc, Completed(OptsPassed, 0))
               ELSE tzais(zc, [degrees |-> 85, offset |-> 0, zmanis_offset |-> 0])
    /\ op = "alos" =>
         ret = IF PassedOpts
               THEN alos(zc, Completed(OptsPassed, 0))
               ELSE alos(zc, [degrees |-> 161, offset |-> 0, zmanis_offset |-> 0])

\* tzais({"offset": 72, "elevation": 1}) at sea level, sunset at 18:00:
\* 19:12, and not the 19:46 of 8.5 degrees and 72 minutes.
C12_Witness ==
    /\ op = "tzais"
    /\ PassedOpts
    /\ DOMAIN OptsPassed = {"offset", "elevation"}
    /\ OptsPassed["offset"] = 72
    /\ ~zc.use_elevation
    /\ ret = SomeInt(Clock(19, 12))
    /\ tzais(zc, [degrees |-> 85, offset |-> 72]) = SomeInt(Clock(19, 46))

\* C12 as the specification states it: degrees is 8.5 for tzais and 16.1
\* for alos also when a dict is passed that does not hold "degrees".
C12_AsStated ==
    /\ op = "tzais" =>
         ret = tzais(zc, Completed(IF PassedOpts THEN OptsPassed ELSE << >>, 85))
    /\ op = "alos" =>
         ret = alos(zc, Completed(IF PassedOpts THEN OptsPassed ELSE << >>, 161))

(***************************************************************************)
(* C13: alos_72() is elevation_adjusted_sunrise() minus 72 minutes and     *)
(* tzais_72() is elevation_adjusted_sunset() plus 72 minutes, whatever the *)
(* degree-offset sunrise and sunset and the temporal hour are; each is     *)
(* None exactly when that sunrise or sunset is None.                       *)
(***************************************************************************)
C13_FixedOffset ==
    /\ op = "alos_72" =>
         ret = IF elevation_adjusted_sunrise(zc) = NoneInt
               THEN NoneInt
               ELSE SomeInt(Value(elevation_adjusted_sunrise(zc)) - 72 * MINUTE_MILLIS)
    /\ op = "tzais_72" =>
         ret = IF elevation_adjusted_sunset(zc) = NoneInt
               THEN NoneInt
               ELSE SomeInt(Value(elevation_adjusted_sunset(zc)) + 72 * MINUTE_MILLIS)

\* tzais_72() with use_elevation set, sunset at 18:06 and no sea-level
\* sunset, on a night the sun reaches 8.5 degrees: 19:18.
C13_Witness ==
    /\ op = "tzais_72"
    /\ zc.use_elevation
    /\ sea_level_sunset(zc) = NoneInt
    /\ sunset_offset_by_degrees(zc, GEOMETRIC_ZENITH + 85) # NoneInt
    /\ ret = SomeInt(Clock(19, 18))

\* The sunrise and the sunset the calendar works with: those at the
\* elevation of the place when use_elevation is set, those at sea level
\* otherwise.
SunriseInUse == IF zc.use_elevation THEN zc.sun.sunrise ELSE zc.sun.sea_level_sunrise

SunsetInUse == IF zc.use_elevation THEN zc.sun.sunset ELSE zc.sun.sea_level_sunset

\* The options a call of tzais or alos works with, and the value of one.
EffectiveOpts ==
    IF PassedOpts THEN OptsPassed
    ELSE IF op = "tzais" THEN TZAIS_DEFAULT_OPTS ELSE ALOS_DEFAULT_OPTS

Option(key) == IF key \in DOMAIN EffectiveOpts THEN EffectiveOpts[key] ELSE 0

\* The base time of the call: the elevation-adjusted sunset (sunrise) for
\* 0 degrees, the degree-offset sunset (sunrise) otherwise.
BaseTime ==
    IF op = "tzais"
    THEN IF Option("degrees") = 0
         THEN SunsetInUse
         ELSE sunset_offset_by_degrees(zc, GEOMETRIC_ZENITH + Option("degrees"))
    ELSE IF Option("degrees") = 0
         THEN SunriseInUse
         ELSE sunrise_offset_by_degrees(zc, GEOMETRIC_ZENITH + Option("degrees"))

\* Forward in time for tzais, backward for alos.
Direction == IF op = "tzais" THEN 1 ELSE -1

\* n minutes scaled by shaah_zmanis_gra / one hour, in milliseconds.
ZmanisMinutes(n) == n * (Value(shaah_zmanis_gra(zc)) \div 60)

\* The same call with another offset.
WithOffset(offset) ==
    [degrees |-> Option("degrees"), offset |-> offset,
     zmanis_offset |-> Option("zmanis_offset")]

(***************************************************************************)
(* C14: in tzais(opts) and alos(opts) a zmanis_offset that is not 0 is     *)
(* applied alone: the result is the base time shifted by zmanis_offset     *)
(* minutes scaled by shaah_zmanis_gra / one hour (None when the base time  *)
(* or shaah_zmanis_gra is None), forward for tzais and backward for alos,  *)
(* and it is the same for every offset.  With zmanis_offset 0 the result   *)
(* is the base time plus offset minutes for tzais, minus for alos.         *)
(***************************************************************************)
C14_ZmanisOffsetFirst ==
    op \in {"tzais", "alos"} =>
        IF Option("zmanis_offset") # 0
        THEN /\ ret = IF BaseTime = NoneInt \/ shaah_zmanis_gra(zc) = NoneInt
                      THEN NoneInt
                      ELSE SomeInt(Value(BaseTime)
                                   + Direction * ZmanisMinutes(Option("zmanis_offset")))
             /\ \A offset \in OptsValues("offset") :
                    ret = IF op = "tzais"
                          THEN tzais(zc, WithOffset(offset))
                          ELSE alos(zc, WithOffset(offset))
        ELSE ret = IF BaseTime = NoneInt
                   THEN NoneInt
                   ELSE SomeInt(Value(BaseTime)
                                + Direction * Option("offset") * MINUTE_MILLIS)

\* alos({"offset": 72, "zmanis_offset": 90}) with use_elevation set,
\* sunrise at 5:57 and sunset at 18:06: a temporal hour is 60.75 minutes
\* and alos is 91.125 minutes before 5:57, not 163.125.
C14_Witness ==
    /\ op = "alos"
    /\ PassedOpts
    /\ DOMAIN OptsPassed = {"offset", "zmanis_offset"}
    /\ OptsPassed["offset"] = 72
    /\ OptsPassed["zmanis_offset"] = 90
    /\ zc.use_elevation
    /\ shaah_zmanis_gra(zc) = SomeInt(60 * MINUTE_MILLIS + 45 * 1000)
    /\ ret = SomeInt(Clock(4, 26) - 7500)

\* The zman methods without arguments whose day runs from the
\* elevation-adjusted sunrise to the elevation-adjusted sunset, or from 72
\* minutes before the one to 72 minutes after the other.
WholeDayZmanim ==
    {"sof_zman_shma_gra", "sof_zman_shma_mga", "sof_zman_tfila_gra",
     "sof_zman_tfila_mga", "shaah_zmanis_gra", "shaah_zmanis_mga"}

DayFractionZmanim == {"mincha_gedola", "mincha_ketana", "plag_hamincha"}

\* The answers of AstronomicalCalendar that the call in op reads: the
\* sunrise and the sunset, plain, at sea level or offset by degrees, that
\* its result is computed from.
PrimitivesRead ==
    IF op = "hanetz" \/ op = "alos_72" THEN {SunriseInUse}
    ELSE IF op = "shkia" \/ op = "tzais_72" THEN {SunsetInUse}
    ELSE IF op = "chatzos" THEN {sun_transit(zc)}
    ELSE IF op = "candle_lighting" THEN {sea_level_sunset(zc)}
    ELSE IF op \in {"tzais", "alos"}
    THEN {BaseTime} \cup (IF Option("zmanis_offset") # 0
                          THEN {SunriseInUse, SunsetInUse}
                          ELSE {})
    ELSE IF op \in WholeDayZmanim
    THEN {SunriseInUse, SunsetInUse}
    ELSE IF op \in DayFractionZmanim
    THEN {IF args[1] = NoneInt THEN SunriseInUse ELSE args[1],
          IF args[2] = NoneInt THEN SunsetInUse ELSE args[2]}
    ELSE {}

ZmanMethods ==
    {"hanetz", "shkia", "tzais", "tzais_72", "alos", "alos_72", "chatzos",
     "candle_lighting"} \cup WholeDayZmanim \cup DayFractionZmanim

(***************************************************************************)
(* C15: every zman method (hanetz, shkia, tzais, tzais_72, alos, alos_72,  *)
(* chatzos, candle_lighting, sof_zman_shma_gra/_mga,                       *)
(* sof_zman_tfila_gra/_mga, mincha_gedola, mincha_ketana, plag_hamincha,   *)
(* shaah_zmanis_gra/_mga) returns None exactly when one of the answers of  *)
(* AstronomicalCalendar it is computed from is None, and one value (an     *)
(* instant, or a span for shaah_zmanis) otherwise, for both values of      *)
(* use_elevation: it never fails on a None.                                *)
(***************************************************************************)
C15_AbsencePropagates ==
    op \in ZmanMethods =>
        /\ ret = NoneInt <=> NoneInt \in PrimitivesRead
        /\ ret # NoneInt => Cardinality(ret) = 1 /\ Value(ret) \in Int

\* plag_hamincha() with use_elevation set, a sunrise and no sunset, though
\* the sea-level sunset is there: None.
C15_Witness ==
    /\ op = "plag_hamincha"
    /\ args = <<NoneInt, NoneInt>>
    /\ zc.use_elevation
    /\ sunrise(zc) # NoneInt
    /\ sunset(zc) = NoneInt
    /\ sea_level_sunset(zc) # NoneInt
    /\ ret = NoneInt

\* The generic day-fraction methods, and four times the number of
\* temporal hours each counts from the start of the day.
FourTimesShaos ==
    [sof_zman_shma |-> 12, sof_zman_tfila |-> 16, mincha_gedola |-> 26,
     mincha_ketana |-> 38, plag_hamincha |-> 43]

\* The day the call in op works with: a boundary that mincha_gedola,
\* mincha_ketana or plag_hamincha was not given is the sunrise or the
\* sunset in use.
DayStart ==
    IF op \in DayFractionZmanim /\ args[1] = NoneInt THEN SunriseInUse ELSE args[1]

DayEnd ==
    IF op \in DayFractionZmanim /\ args[2] = NoneInt THEN SunsetInUse ELSE args[2]

(***************************************************************************)
(* C17: for a day (day_start, day_end) with both present a day-fraction    *)
(* zman is day_start + N * (day_end - day_start) / 12, with N = 3 for      *)
(* sof_zman_shma, 4 for sof_zman_tfila, 6.5 for mincha_gedola, 9.5 for     *)
(* mincha_ketana and 10.75 for plag_hamincha, where mincha_gedola,         *)
(* mincha_ketana and plag_hamincha take the elevation-adjusted sunrise or  *)
(* sunset for a boundary they are not given.  For day_start <= day_end the *)
(* five zmanim of that day are in this order between day_start and         *)
(* day_end, and plag_hamincha is day_end minus 1.25 temporal hours.        *)
(***************************************************************************)
C17_DayFractions ==
    (op \in DOMAIN FourTimesShaos /\ DayStart # NoneInt /\ DayEnd # NoneInt) =>
        LET day_start == Value(DayStart)
            day_end == Value(DayEnd)
        IN  /\ ret # NoneInt
            /\ 48 * (Value(ret) - day_start) = FourTimesShaos[op] * (day_end - day_start)
            /\ day_start <= day_end =>
                 /\ day_start <= Value(sof_zman_shma(zc, DayStart, DayEnd))
                 /\ Value(sof_zman_shma(zc, DayStart, DayEnd))
                      <= Value(sof_zman_tfila(zc, DayStart, DayEnd))
                 /\ Value(sof_zman_tfila(zc, DayStart, DayEnd))
                      <= Value(mincha_gedola(zc, DayStart, DayEnd))
                 /\ Value(mincha_gedola(zc, DayStart, DayEnd))
                      <= Value(mincha_ketana(zc, DayStart, DayEnd))
                 /\ Value(mincha_ketana(zc, DayStart, DayEnd))
                      <= Value(plag_hamincha(zc, DayStart, DayEnd))
                 /\ Value(plag_hamincha(zc, DayStart, DayEnd)) <= day_end
            /\ 4 * (day_end - Value(plag_hamincha(zc, DayStart, DayEnd)))
                 = 5 * Value(temporal_hour(DayStart, DayEnd))

\* plag_hamincha() with use_elevation set, sunrise at 5:57 and sunset at
\* 18:06: 10.75 temporal hours of 60.75 minutes after 5:57, 16:50:03.75.
C17_Witness ==
    /\ op = "plag_hamincha"
    /\ args = <<NoneInt, NoneInt>>
    /\ zc.use_elevation
    /\ DayStart = SomeInt(Clock(5, 57))
    /\ DayEnd = SomeInt(Clock(18, 6))
    /\ ret = SomeInt(Clock(16, 50) + 3750)

\* The arguments of the call of is_assur_bemelacha in op: in_israel is
\* False when it is left out.
InIsraelArgument == IF Len(args) = 3 THEN args[3] ELSE FALSE

\* The calendar day of current_time, in the locale of the call.
DayOfCurrentTime == [args[1].date EXCEPT !.in_israel = InIsraelArgument]

\* The tzais the call resolves: the instant given, tzais(opts) for a dict,
\* and for None the tzais() of 8.5 degrees.
ResolvedTzais ==
    IF args[2].kind = "datetime" THEN SomeInt(args[2].time)
    ELSE IF args[2].kind = "dict" THEN tzais(zc, args[2].opts)
    ELSE zc.sun.sunset_offset_by_degrees[GEOMETRIC_ZENITH + 85]

(***************************************************************************)
(* C16: ZmanimCalendar.is_assur_bemelacha(current_time, tzais, in_israel)  *)
(* takes for tzais_time the instant given, tzais(opts) for a dict and the  *)
(* default tzais() for None.  It returns None if tzais_time or             *)
(* elevation_adjusted_sunset() is None, and otherwise whether              *)
(* (current_time <= tzais_time and the day of current_time is              *)
(* melacha-prohibited) or (current_time >= elevation_adjusted_sunset and   *)
(* the day after it is melacha-prohibited), both days judged with the      *)
(* in_israel of the call, the Diaspora when it is left out.                *)
(***************************************************************************)
C16_IsAssurBemelacha ==
    op = "ZmanimCalendar.is_assur_bemelacha" =>
        ret = IF ResolvedTzais = NoneInt \/ SunsetInUse = NoneInt
              THEN {}
              ELSE {\/ /\ args[1].time <= Value(ResolvedTzais)
                       /\ is_assur_bemelacha(DayOfCurrentTime)
                    \/ /\ args[1].time >= Value(SunsetInUse)
                       /\ is_assur_bemelacha(tomorrow(DayOfCurrentTime))}

\* Sivan 6 at 20:00, after the tzais of 18:34, asked with in_israel True:
\* the day is Shavuos but tzais has passed, and Sivan 7 is no Yom Tov in
\* Israel, so the answer is False; in the Diaspora it would be True.
C16_Witness ==
    /\ op = "ZmanimCalendar.is_assur_bemelacha"
    /\ Len(args) = 3
    /\ args[3] = TRUE
    /\ args[2].kind = "None"
    /\ args[1].date.jewish_day = 6
    /\ args[1].time = Clock(20, 0)
    /\ ResolvedTzais = SomeInt(Clock(18, 34))
    /\ ret = {FALSE}
    /\ ZmanimCalendar_is_assur_bemelacha(zc, args[1], args[2], FALSE) = {TRUE}

\* The calls of the four times of Kiddush Levana and of the molad.
KiddushLevanaQueries ==
    {"molad_as_datetime", "techilas_zman_kiddush_levana_3_days",
     "techilas_zman_kiddush_levana_7_days", "sof_zman_kiddush_levana_between_moldos",
     "sof_zman_kiddush_levana_15_days"}

\* The length of a day, in the thirds of a second instants are counted in.
DayLength == 24 * 60 * 60 * 3

\* Each time is the molad M of the month and a fixed span: 3, 7 and 15
\* days, and the span that taken twice is the CHALAKIM_PER_MONTH chalakim
\* of 10/3 seconds of a lunation; the five instants are in order.
C18_Offsets ==
    LET M == molad_as_datetime(molad)
    IN  /\ op = "molad_as_datetime" => ret = M
        /\ op = "techilas_zman_kiddush_levana_3_days" => ret - M = 3 * DayLength
        /\ op = "techilas_zman_kiddush_levana_7_days" => ret - M = 7 * DayLength
        /\ op = "sof_zman_kiddush_levana_15_days" => ret - M = 15 * DayLength
        /\ op = "sof_zman_kiddush_levana_between_moldos" =>
             2 * (ret - M) = CHALAKIM_PER_MONTH * 10
        /\ op \in KiddushLevanaQueries =>
             /\ M < techilas_zman_kiddush_levana_3_days(molad)
             /\ techilas_zman_kiddush_levana_3_days(molad)
                  < techilas_zman_kiddush_levana_7_days(molad)
             /\ techilas_zman_kiddush_levana_7_days(molad)
                  < sof_zman_kiddush_levana_between_moldos(molad)
             /\ sof_zman_kiddush_levana_between_moldos(molad)
                  < sof_zman_kiddush_levana_15_days(molad)

\* A call leaves the date as it is, and molad_as_datetime() called again
\* on it returns the instant it returned before.
C18_Repeated ==
    op' \in KiddushLevanaQueries =>
        /\ molad' = molad
        /\ (op = "molad_as_datetime" /\ op' = "molad_as_datetime") => ret' = ret

(***************************************************************************)
(* C18: the four Kiddush Levana boundaries are offsets from the one molad  *)
(* instant M = molad_as_datetime(): M + 3 days, M + 7 days, M + 15 days    *)
(* and, for sof_zman_kiddush_levana_between_moldos, M + half of            *)
(* CHALAKIM_PER_MONTH chalakim of 10/3 seconds.  So in every month         *)
(* M < 3 days < 7 days < between moldos < 15 days, and molad_as_datetime() *)
(* called again on an unchanged date returns the same instant.             *)
(***************************************************************************)
C18_KiddushLevana == [] C18_Offsets /\ [][C18_Repeated]_vars

\* sof_zman_kiddush_levana_between_moldos() for a molad of 23:59 and 17
\* chalakim: 14 days, 18 hours, 22 minutes and 1 2/3 seconds after it.
C18_Witness ==
    /\ op = "sof_zman_kiddush_levana_between_moldos"
    /\ molad.molad_hours = 23
    /\ molad.molad_chalakim = 17
    /\ ret - molad_as_datetime(molad)
         = 14 * DayLength + Seconds(18 * 60 * 60 + 22 * 60 + 1) + 2

\* The queries and the assignments of the flags.
FlagQueries ==
    {"significant_day", "is_assur_bemelacha", "is_tomorrow_assur_bemelacha",
     "hanetz", "shkia", "tzais_72", "candle_lighting"}

\* The calendar a constructor makes for the date of cal, with the flags set
\* to what cal holds now, and the zmanim calendar made for the sun of zc
\* with the flags zc holds now.
FreshCalendar ==
    [jewish_month |-> cal.jewish_month, jewish_day |-> cal.jewish_day,
     day_of_week |-> cal.day_of_week, leap |-> cal.leap, keviah |-> cal.keviah,
     in_israel |-> cal.in_israel, use_modern_holidays |-> cal.use_modern_holidays]

FreshZmanimCalendar ==
    [sun |-> zc.sun, use_elevation |-> zc.use_elevation,
     candle_lighting_offset |-> zc.candle_lighting_offset]

\* What a query returned is what the date, the sun and the flags of now
\* determine.
C11_FromCurrentFlags ==
    /\ op = "__init__" =>
         /\ ~cal.in_israel /\ ~cal.use_modern_holidays
         /\ ~zc.use_elevation /\ zc.candle_lighting_offset = 18
    /\ op = "significant_day" =>
         /\ ret = significant_day(FreshCalendar)
         /\ (cal.jewish_month = 3 /\ cal.jewish_day = 7) =>
              ret = IF cal.in_israel THEN None ELSE "shavuos"
         /\ (cal.jewish_month = 2 /\ cal.jewish_day = 28) =>
              ret = IF cal.use_modern_holidays THEN "yom_yerushalayim" ELSE None
    /\ op = "is_assur_bemelacha" =>
         /\ ret = is_assur_bemelacha(FreshCalendar)
         /\ (cal.jewish_month = 3 /\ cal.jewish_day = 7) => ret = ~cal.in_israel
    /\ op = "is_tomorrow_assur_bemelacha" =>
         /\ ret = is_tomorrow_assur_bemelacha(FreshCalendar)
         /\ (cal.jewish_month = 3 /\ cal.jewish_day = 6) => ret = ~cal.in_israel
    /\ op = "hanetz" => ret = SunriseInUse
    /\ op = "shkia" => ret = SunsetInUse
    /\ op = "tzais_72" => ret = tzais_72(FreshZmanimCalendar)
    /\ op = "candle_lighting" =>
         ret = IF zc.sun.sea_level_sunset = NoneInt
               THEN NoneInt
               ELSE SomeInt(Value(zc.sun.sea_level_sunset)
                            - zc.candle_lighting_offset * MINUTE_MILLIS)

\* A query changes no flag, and an assignment changes the flag assigned
\* and nothing else.
C11_FlagsKept ==
    /\ op' \in FlagQueries => cal' = cal /\ zc' = zc
    /\ op' = "in_israel" =>
         cal' = [cal EXCEPT !.in_israel = args'[1]] /\ zc' = zc
    /\ op' = "use_modern_holidays" =>
         cal' = [cal EXCEPT !.use_modern_holidays = args'[1]] /\ zc' = zc
    /\ op' = "use_elevation" =>
         zc' = [zc EXCEPT !.use_elevation = args'[1]] /\ cal' = cal
    /\ op' = "candle_lighting_offset" =>
         zc' = [zc EXCEPT !.candle_lighting_offset = args'[1]] /\ cal' = cal

(***************************************************************************)
(* C11: no derived result is cached.  After any assignments to in_israel   *)
(* and use_modern_holidays of a JewishCalendar and to use_elevation and    *)
(* candle_lighting_offset of a ZmanimCalendar, interleaved with any        *)
(* queries, a query returns what the date, the sun and the flags of the    *)
(* moment of the call determine, whatever the flags were before and        *)
(* whatever was asked before: candle_lighting() is the sea-level sunset    *)
(* minus the candle_lighting_offset of now, 18 by default.  A query        *)
(* changes no flag.                                                        *)
(***************************************************************************)
C11_NoCaching == [] C11_FromCurrentFlags /\ [][C11_FlagsKept]_vars

\* candle_lighting() after candle_lighting_offset was set to 40, sunset at
\* sea level at 18:00: 17:20.
C11_Witness ==
    /\ op = "candle_lighting"
    /\ zc.candle_lighting_offset = 40
    /\ zc.use_elevation
    /\ cal.in_israel
    /\ ret = SomeInt(Clock(17, 20))

====
